---- MODULE Spec2Model ----
(***************************************************************************)
(* A model of the github-mcp tool catalog: the guards, the URL builder,    *)
(* the request dispatcher and the catalog operations built on them, with   *)
(* gh_ci_diagnosis modelled stage by stage.                                *)
(*                                                                         *)
(* Python values (arguments and JSON payloads alike) are tagged records:   *)
(*   [t |-> "none"], [t |-> "str", v |-> <<chars>>], [t |-> "int", v |-> n]*)
(*   [t |-> "bool", v |-> b], [t |-> "list", v |-> <<...>>],               *)
(*   [t |-> "dict", v |-> [key |-> value]].                                *)
(* A Python str is a sequence of pieces: single characters wherever the    *)
(* code looks at characters (identifiers, refs, numerals), longer literal  *)
(* pieces elsewhere (NUL stands for the character \x00).  Flat gives the   *)
(* TLA+ string they spell; two strs are equal when their Flat is.          *)
(***************************************************************************)
EXTENDS Integers, Sequences, FiniteSets, TLC

VARIABLES
    op,       \* the catalog operation being invoked ("none" when idle)
    args,     \* its arguments
    pc,       \* "idle", "stage1" / "stage2" (suspended on ctx.dispatch), "done"
    calls,    \* the HttpRequests this invocation handed to ctx.dispatch, in order
    resps,    \* the transport's answers to them, in order
    run,      \* gh_ci_diagnosis: the local `run` once stage 1 resolved it
    outcome   \* how the invocation ended: an exception or a returned value

vars == <<op, args, pc, calls, resps, run, outcome>>

-----------------------------------------------------------------------------
(* Python values *)

None == [t |-> "none"]
PyStr(s) == [t |-> "str", v |-> s]
PyInt(n) == [t |-> "int", v |-> n]
PyBool(b) == [t |-> "bool", v |-> b]
PyList(s) == [t |-> "list", v |-> s]
PyDict(f) == [t |-> "dict", v |-> f]
\* A finite float, counted in halves (PyFloat(3) is 1.5), and the floats
\* that a JSON number out of range (1e999) or the tokens Infinity and NaN
\* are parsed to.
PyFloat(halves) == [t |-> "float", v |-> halves]
Inf == [t |-> "inf", v |-> 1]
NegInf == [t |-> "inf", v |-> -1]
NaN == [t |-> "nan"]
EmptyDict == PyDict(<<>>)

\* A keyword argument the caller left out, and the value the parameter is
\* then bound to.
Omitted == [t |-> "omitted"]
Bind(x, default) == IF x = Omitted THEN default ELSE x

\* The one-token stand-in for the character \x00.
NUL == "<NUL>"
LF == "\n"

Letters == {"a", "b", "c", "d", "e", "f", "g", "h", "i", "j", "k", "l", "m",
            "n", "o", "p", "q", "r", "s", "t", "u", "v", "w", "x", "y", "z",
            "A", "B", "C", "F", "I", "Z"}
Digits == {"0", "1", "2", "3", "4", "5", "6", "7", "8", "9"}
Alnum == Letters \cup Digits

RECURSIVE Flat(_)
Flat(s) == IF s = <<>> THEN "" ELSE Head(s) \o Flat(Tail(s))

\* bool(v): Python truthiness.
Truthy(x) ==
    CASE x.t = "none" -> FALSE
      [] x.t = "str" -> x.v # <<>>
      [] x.t = "int" -> x.v # 0
      [] x.t = "bool" -> x.v
      [] x.t = "list" -> x.v # <<>>
      [] x.t = "dict" -> DOMAIN x.v # {}
      [] x.t = "float" -> x.v # 0
      [] x.t \in {"inf", "nan"} -> TRUE

\* dict.get(key) on a value already known to be a dict.
Get(d, key) == IF key \in DOMAIN d.v THEN d.v[key] ELSE None
\* dict.get(key, default)
GetOr(d, key, default) == IF key \in DOMAIN d.v THEN d.v[key] ELSE default

-----------------------------------------------------------------------------
(* Exceptions and results of the pure helpers *)

NoError == [kind |-> "none", msg |-> ""]
ValueError(m) == [kind |-> "ValueError", msg |-> m]
RuntimeError(m) == [kind |-> "RuntimeError", msg |-> m]
\* An exception the code does not raise itself: `.get` on a non-dict
\* (AttributeError), iterating or indexing a non-container (TypeError),
\* indexing a dict by 0 (KeyError).
Crash(kind) == [kind |-> kind, msg |-> ""]

\* The first exception of a sequence of checks run in order.
RECURSIVE FirstError(_)
FirstError(checks) ==
    IF checks = <<>> THEN NoError
    ELSE IF Head(checks).kind # "none" THEN Head(checks)
    ELSE FirstError(Tail(checks))

\* repr(s) of a str, as the !r conversion of an f-string writes it.
EscapeChar(c) == CASE c = LF -> "\\n" [] c = NUL -> "\\x00" [] OTHER -> c
RECURSIVE Escaped(_)
Escaped(s) == IF s = <<>> THEN "" ELSE EscapeChar(Head(s)) \o Escaped(Tail(s))
Repr(x) == IF x.t = "none" THEN "None" ELSE "'" \o Escaped(x.v) \o "'"

\* str(n) of an int, as characters.
Digit(d) == CASE d = 0 -> "0" [] d = 1 -> "1" [] d = 2 -> "2" [] d = 3 -> "3"
              [] d = 4 -> "4" [] d = 5 -> "5" [] d = 6 -> "6" [] d = 7 -> "7"
              [] d = 8 -> "8" [] d = 9 -> "9"
RECURSIVE NatChars(_)
NatChars(n) == IF n < 10 THEN <<Digit(n)>> ELSE NatChars(n \div 10) \o <<Digit(n % 10)>>
IntChars(n) == IF n < 0 THEN <<"-">> \o NatChars(0 - n) ELSE NatChars(n)

-----------------------------------------------------------------------------
(* gh/guards.py *)

NameFirst(c) == c \in Alnum
NameRest(c) == c \in Alnum \cup {".", "_", "-"}
FullName(s) == /\ Len(s) >= 1
               /\ NameFirst(s[1])
               /\ \A i \in 2..Len(s) : NameRest(s[i])
\* _NAME_RE.match(s): in Python `$` also matches just before a final newline.
NameMatch(s) == \/ FullName(s)
                \/ /\ Len(s) >= 2
                   /\ s[Len(s)] = LF
                   /\ FullName(SubSeq(s, 1, Len(s) - 1))

validate_owner(owner) ==
    IF owner = <<>> \/ ~NameMatch(owner)
    THEN ValueError("Invalid GitHub owner: " \o Repr(PyStr(owner)))
    ELSE NoError

validate_repo(repo) ==
    IF repo = <<>> \/ ~NameMatch(repo)
    THEN ValueError("Invalid repository name: " \o Repr(PyStr(repo)))
    ELSE NoError

validate_owner_repo(owner, repo) ==
    FirstError(<<validate_owner(owner), validate_repo(repo)>>)

Contains(s, c) == \E i \in 1..Len(s) : s[i] = c

\* Mutant: a '/' anywhere in the path is refused.
validate_path_NoSlash(path) ==
    IF path = <<>> THEN ValueError("File path cannot be empty")
    ELSE IF Contains(path, NUL) THEN ValueError("File path cannot contain null bytes")
    ELSE IF Contains(path, "/") THEN ValueError("File path must be relative")
    ELSE NoError

validate_path(path) ==
    IF path = <<>> THEN ValueError("File path cannot be empty")
    ELSE IF Contains(path, NUL) THEN ValueError("File path cannot contain null bytes")
    ELSE IF path[1] = "/" THEN ValueError("File path must be relative")
    ELSE NoError

validate_ref(ref) ==
    IF ref = <<>> THEN ValueError("Git ref cannot be empty")
    ELSE IF Contains(ref, NUL) THEN ValueError("Git ref cannot contain null bytes")
    ELSE NoError

-----------------------------------------------------------------------------
(* gh/request.py: build_url *)

\* urllib.parse.quote_plus on one character.
QuotePlus(c) ==
    CASE c \in Alnum \cup {"_", ".", "-", "~"} -> c
      [] c = " " -> "+"
      [] c = "/" -> "%2F"
      [] c = LF -> "%0A"
      [] c = NUL -> "%00"
      [] c = "?" -> "%3F"
      [] c = "&" -> "%26"
      [] c = "=" -> "%3D"
      [] c = ":" -> "%3A"
RECURSIVE Quoted(_)
Quoted(s) == IF s = <<>> THEN "" ELSE QuotePlus(Head(s)) \o Quoted(Tail(s))

\* str(val).lower() if isinstance(val, bool) else str(val)
ParamChars(x) ==
    CASE x.t = "bool" -> IF x.v THEN <<"t", "r", "u", "e">> ELSE <<"f", "a", "l", "s", "e">>
      [] x.t = "int" -> IntChars(x.v)
      [] x.t = "str" -> x.v

\* Mutant: the values that are falsy are dropped, not only None.
RECURSIVE Filtered_Falsy(_)
Filtered_Falsy(params) ==
    IF params = <<>> THEN <<>>
    ELSE IF ~Truthy(Head(params)[2]) THEN Filtered_Falsy(Tail(params))
    ELSE <<<<Head(params)[1], ParamChars(Head(params)[2])>>>>
         \o Filtered_Falsy(Tail(params))

\* params: the keyword arguments in call order, each <<key, value>>.
RECURSIVE Filtered(_)
Filtered(params) ==
    IF params = <<>> THEN <<>>
    ELSE IF Head(params)[2].t = "none" THEN Filtered(Tail(params))
    ELSE <<<<Head(params)[1], ParamChars(Head(params)[2])>>>> \o Filtered(Tail(params))

RECURSIVE UrlEncode(_)
UrlEncode(pairs) ==
    IF pairs = <<>> THEN ""
    ELSE Head(pairs)[1] \o "=" \o Quoted(Head(pairs)[2])
         \o (IF Tail(pairs) = <<>> THEN "" ELSE "&" \o UrlEncode(Tail(pairs)))

build_url(endpoint, params) ==
    IF Filtered(params) = <<>> THEN endpoint
    ELSE endpoint \o "?" \o UrlEncode(Filtered(params))

-----------------------------------------------------------------------------
(* gh/request.py: request *)

HttpRequest(method, path, body) == [method |-> method, path |-> path, body |-> body]

\* The transport's answer: success, response (None or an object with a
\* body), error (None or an object with a message).
DispatchResponse(success, response, error) ==
    [success |-> success, response |-> response, error |-> error]
Response(body) == [t |-> "response", body |-> body]
Error(message) == [t |-> "error", message |-> message]

GhResult(success, data, error) == [success |-> success, data |-> data, error |-> error]

\* Mutant: a response whose body is null is reported as a failure.
request_BodyRequired(resp) ==
    IF resp.success /\ resp.response.t # "none" /\ resp.response.body.t # "none"
    THEN GhResult(TRUE, resp.response.body, None)
    ELSE GhResult(FALSE, None,
                  IF resp.error.t # "none" THEN PyStr(resp.error.message)
                  ELSE PyStr(<<"Request failed">>))

\* What request() makes of the transport's answer.
request(resp) ==
    IF resp.success /\ resp.response.t # "none"
    THEN GhResult(TRUE, resp.response.body, None)
    ELSE GhResult(FALSE, None,
                  IF resp.error.t # "none" THEN PyStr(resp.error.message)
                  ELSE PyStr(<<"Request failed">>))

\* msg = response.error or <fallback>
ErrorOr(response, fallback) ==
    IF Truthy(response.error) THEN Flat(response.error.v) ELSE fallback

-----------------------------------------------------------------------------
(* gh/request.py: coercion helpers *)

\* str(val).  The text of a non-empty list or dict is not spelled out.
StrOf(x) ==
    CASE x.t = "str" -> x.v
      [] x.t = "int" -> IntChars(x.v)
      [] x.t = "bool" -> IF x.v THEN <<"True">> ELSE <<"False">>
      [] x.t = "none" -> <<"None">>
      [] x.t = "list" -> IF x.v = <<>> THEN <<"[]">> ELSE <<"[...]">>
      [] x.t = "dict" -> IF DOMAIN x.v = {} THEN <<"{}">> ELSE <<"{...}">>
      [] x.t = "float" ->
            (IF x.v < 0 THEN <<"-">> ELSE <<>>)
            \o NatChars((IF x.v < 0 THEN 0 - x.v ELSE x.v) \div 2)
            \o <<".", IF x.v % 2 = 0 THEN "0" ELSE "5">>
      [] x.t = "inf" -> IF x.v < 0 THEN <<"-inf">> ELSE <<"inf">>
      [] x.t = "nan" -> <<"nan">>

_str(val, default) == IF val.t # "none" THEN PyStr(StrOf(val)) ELSE PyStr(default)

_opt_str(val) == IF val.t # "none" THEN PyStr(StrOf(val)) ELSE None

IsSpace(c) == c \in {" ", LF, "\t"}
RECURSIVE LStrip(_)
LStrip(s) == IF s # <<>> /\ IsSpace(Head(s)) THEN LStrip(Tail(s)) ELSE s
RECURSIVE RStrip(_)
RStrip(s) == IF s # <<>> /\ IsSpace(s[Len(s)]) THEN RStrip(SubSeq(s, 1, Len(s) - 1)) ELSE s
DigitVal(c) == CHOOSE d \in 0..9 : Digit(d) = c
RECURSIVE NatOf(_)
NatOf(s) == IF s = <<>> THEN 0 ELSE NatOf(SubSeq(s, 1, Len(s) - 1)) * 10 + DigitVal(s[Len(s)])
IsNumeral(s) == s # <<>> /\ \A i \in 1..Len(s) : s[i] \in Digits
\* int(s) of a str: surrounding whitespace, an optional sign, decimal digits
\* (digit-group underscores are not modelled); ok = FALSE is ValueError.
ParseInt(s) ==
    LET body == RStrip(LStrip(s))
        signed == body # <<>> /\ Head(body) \in {"-", "+"}
        digits == IF signed THEN Tail(body) ELSE body
    IN IF IsNumeral(digits)
       THEN [ok |-> TRUE,
             val |-> IF signed /\ Head(body) = "-" THEN 0 - NatOf(digits) ELSE NatOf(digits)]
       ELSE [ok |-> FALSE, val |-> 0]

\* int(val): the int, or the kind of the exception it raises ("none" when
\* it returns).  A float is truncated towards zero.
IntOf(val) ==
    CASE val.t = "int" -> [raises |-> "none", val |-> val.v]
      [] val.t = "bool" -> [raises |-> "none", val |-> IF val.v THEN 1 ELSE 0]
      [] val.t = "str" ->
            IF ParseInt(val.v).ok THEN [raises |-> "none", val |-> ParseInt(val.v).val]
            ELSE [raises |-> "ValueError", val |-> 0]
      [] val.t = "float" ->
            [raises |-> "none",
             val |-> IF val.v < 0 THEN 0 - ((0 - val.v) \div 2) ELSE val.v \div 2]
      [] val.t = "inf" -> [raises |-> "OverflowError", val |-> 0]
      [] val.t = "nan" -> [raises |-> "ValueError", val |-> 0]
      [] OTHER -> [raises |-> "TypeError", val |-> 0]

\* The exception that escapes _int: the `except` clause catches TypeError
\* and ValueError only.
IntEscapes(val) ==
    IF val.t # "none" /\ IntOf(val).raises \notin {"none", "TypeError", "ValueError"}
    THEN IntOf(val).raises
    ELSE "none"

\* What _int returns when nothing escapes it: int(val), or the default for
\* None and for a caught exception.
_int(val, default) ==
    IF val.t = "none" THEN default
    ELSE IF IntOf(val).raises = "none" THEN IntOf(val).val
    ELSE default

\* bool(val) if val is not None else default
_bool(val, default) == IF val.t # "none" THEN Truthy(val) ELSE default

_nested_str(obj, key) == IF obj.t = "dict" THEN _opt_str(Get(obj, key)) ELSE None

\* The names of the label objects that are dicts with a truthy name.
_labels(val) ==
    IF val.t # "list" THEN <<>>
    ELSE LET named == SelectSeq(val.v,
                          LAMBDA label : label.t = "dict" /\ Truthy(Get(label, "name")))
         IN [i \in 1..Len(named) |-> _str(Get(named[i], "name"), <<>>)]

-----------------------------------------------------------------------------
(* Python's behaviour on values of the wrong shape *)

Ok(val) == [exc |-> NoError, val |-> val]
Raised(exc) == [exc |-> exc, val |-> None]

\* The keys of a dict as strs, in one fixed order.
RECURSIVE KeySeq(_)
KeySeq(keys) ==
    IF keys = {} THEN <<>>
    ELSE LET k == CHOOSE x \in keys : TRUE
         IN <<PyStr(<<k>>)>> \o KeySeq(keys \ {k})

\* `for item in x`: the items, or TypeError for a value that is not iterable.
Iterate(x) ==
    CASE x.t = "list" -> Ok(x.v)
      [] x.t = "str" -> Ok([i \in 1..Len(x.v) |-> PyStr(<<x.v[i]>>)])
      [] x.t = "dict" -> Ok(KeySeq(DOMAIN x.v))
      [] OTHER -> Raised(Crash("TypeError"))

\* x[0] of a truthy value.
First(x) ==
    CASE x.t = "list" -> Ok(x.v[1])
      [] x.t = "str" -> Ok(PyStr(<<x.v[1]>>))
      [] x.t = "dict" -> Raised(Crash("KeyError"))
      [] OTHER -> Raised(Crash("TypeError"))

\* The results of a comprehension [f(item) for item in items], or the first
\* exception raised on the way.
RECURSIVE Collect(_)
Collect(results) ==
    IF results = <<>> THEN Ok(<<>>)
    ELSE IF Head(results).exc.kind # "none" THEN Raised(Head(results).exc)
    ELSE LET rest == Collect(Tail(results))
         IN IF rest.exc.kind # "none" THEN rest
            ELSE Ok(<<Head(results).val>> \o rest.val)

-----------------------------------------------------------------------------
(* tools/actions.py: _parse_job and gh_ci_diagnosis *)

WorkflowJobStep(name, status, conclusion, number) ==
    [name |-> name, status |-> status, conclusion |-> conclusion, number |-> number]

WorkflowJobInfo(id, name, status, conclusion, steps) ==
    [id |-> id, name |-> name, status |-> status, conclusion |-> conclusion,
     steps |-> steps]

CiDiagnosisInfo(run_id, run_name, status, conclusion, branch, jobs, failed_jobs) ==
    [run_id |-> run_id, run_name |-> run_name, status |-> status,
     conclusion |-> conclusion, branch |-> branch, jobs |-> jobs,
     failed_jobs |-> failed_jobs]

\* One element of the `steps` comprehension of _parse_job.
ParseStep(step) ==
    IF step.t # "dict" THEN Raised(Crash("AttributeError"))
    ELSE Ok(WorkflowJobStep(_str(Get(step, "name"), <<>>),
                            _str(Get(step, "status"), <<>>),
                            _opt_str(Get(step, "conclusion")),
                            _int(Get(step, "number"), 0)))

_parse_job(raw) ==
    IF raw.t # "dict" THEN Raised(Crash("AttributeError"))
    ELSE LET raw_steps == IF Get(raw, "steps").t = "list"
                          THEN GetOr(raw, "steps", PyList(<<>>)).v
                          ELSE <<>>
             steps == Collect([i \in 1..Len(raw_steps) |-> ParseStep(raw_steps[i])])
         IN IF steps.exc.kind # "none" THEN Raised(steps.exc)
            ELSE Ok(WorkflowJobInfo(_int(Get(raw, "id"), 0),
                                    _str(Get(raw, "name"), <<>>),
                                    _str(Get(raw, "status"), <<>>),
                                    _opt_str(Get(raw, "conclusion")),
                                    steps.val))

\* job.conclusion == "failure"
IsFailure(job) == job.conclusion.t = "str" /\ Flat(job.conclusion.v) = "failure"

\* Mutant: every job that did not succeed counts as failed.
FailedJobs_NotSuccess(jobs) ==
    SelectSeq(jobs, LAMBDA job : ~(job.conclusion.t = "str"
                                   /\ Flat(job.conclusion.v) = "success"))

\* [job for job in jobs if job.conclusion == "failure"]
FailedJobs(jobs) == SelectSeq(jobs, IsFailure)

RepoPath(a) == "/repos/" \o Flat(a.owner) \o "/" \o Flat(a.repo)

\* A step of an operation: the exception it raised, or the request it hands
\* to ctx.dispatch, or the value it returns.
Raise(exc) == [do |-> "raise", exc |-> exc]
Dispatch(req) == [do |-> "dispatch", req |-> req]
\* ... with the value the operation keeps in its local `run` across the await.
DispatchKeeping(req, r) == [do |-> "dispatch", req |-> req, run |-> r]
Return(val) == [do |-> "return", val |-> val]

\* Mutant: the branch is used without checking that one was given.
CiResolveRequest_BranchUnchecked(a) ==
    IF validate_owner_repo(a.owner, a.repo).kind # "none"
    THEN Raise(validate_owner_repo(a.owner, a.repo))
    ELSE IF Truthy(a.run_id)
    THEN Dispatch(HttpRequest("GET",
             RepoPath(a) \o "/actions/runs/" \o Flat(StrOf(a.run_id)), None))
    ELSE Dispatch(HttpRequest("GET",
             build_url(RepoPath(a) \o "/actions/runs",
                       <<<<"branch", a.branch>>, <<"per_page", PyInt(1)>>>>), None))

\* gh_ci_diagnosis from its call to its first await.
CiResolveRequest(a) ==
    IF validate_owner_repo(a.owner, a.repo).kind # "none"
    THEN Raise(validate_owner_repo(a.owner, a.repo))
    ELSE IF Truthy(a.run_id)
    THEN Dispatch(HttpRequest("GET",
             RepoPath(a) \o "/actions/runs/" \o Flat(StrOf(a.run_id)), None))
    ELSE IF Truthy(a.branch)
    THEN Dispatch(HttpRequest("GET",
             build_url(RepoPath(a) \o "/actions/runs",
                       <<<<"branch", a.branch>>, <<"per_page", PyInt(1)>>>>), None))
    ELSE Raise(RuntimeError("Provide either run_id or branch"))

\* Mutant: the last run of the list is taken instead of the first.
CiResolveRun_LastRun(a, response) ==
    IF Truthy(a.run_id)
    THEN Ok(IF response.data.t = "dict" THEN response.data ELSE EmptyDict)
    ELSE LET runs == IF response.data.t = "dict"
                     THEN GetOr(response.data, "workflow_runs", PyList(<<>>))
                     ELSE PyList(<<>>)
         IN IF ~Truthy(runs)
            THEN Raised(RuntimeError("No workflow runs found for branch "
                                     \o Repr(a.branch)))
            ELSE IF runs.t = "list" THEN Ok(runs.v[Len(runs.v)]) ELSE First(runs)

\* The `run` that stage 1 resolves from a successful response.
CiResolveRun(a, response) ==
    IF Truthy(a.run_id)
    THEN Ok(IF response.data.t = "dict" THEN response.data ELSE EmptyDict)
    ELSE LET runs == IF response.data.t = "dict"
                     THEN GetOr(response.data, "workflow_runs", PyList(<<>>))
                     ELSE PyList(<<>>)
         IN IF ~Truthy(runs)
            THEN Raised(RuntimeError("No workflow runs found for branch "
                                     \o Repr(a.branch)))
            ELSE First(runs)

\* msg of the RuntimeError raised when stage 1's dispatch failed.
CiResolveFailure(a, response) ==
    IF Truthy(a.run_id)
    THEN ErrorOr(response, "Failed to get run " \o Flat(StrOf(a.run_id)))
    ELSE ErrorOr(response, "No runs found for branch " \o Repr(a.branch))

\* resolved_run_id = _int(run.get("id")), with `run` already known to be a dict.
ResolvedRunId(r) == _int(Get(r, "id"), 0)

\* Mutant: the jobs are fetched for the run id the caller supplied.
JobsRequest_CallerId(a, r) ==
    HttpRequest("GET",
        RepoPath(a) \o "/actions/runs/"
            \o Flat(IF Truthy(a.run_id) THEN StrOf(a.run_id)
                    ELSE IntChars(ResolvedRunId(r)))
            \o "/jobs",
        None)

\* GET .../actions/runs/{resolved_run_id}/jobs
JobsRequest(a, r) ==
    HttpRequest("GET",
        RepoPath(a) \o "/actions/runs/" \o Flat(IntChars(ResolvedRunId(r))) \o "/jobs",
        None)

\* Mutant: stage 1's failure is not checked before the run is used.
CiJobsRequest_FailureUnchecked(a, resp) ==
    LET response == request(resp)
        resolved == CiResolveRun(a, response)
    IN IF resolved.exc.kind # "none" THEN Raise(resolved.exc)
       ELSE IF resolved.val.t # "dict" THEN Raise(Crash("AttributeError"))
       ELSE DispatchKeeping(JobsRequest(a, resolved.val), resolved.val)

\* gh_ci_diagnosis from its first await to its second.
CiJobsRequest(a, resp) ==
    LET response == request(resp)
        resolved == CiResolveRun(a, response)
    IN IF ~response.success THEN Raise(RuntimeError(CiResolveFailure(a, response)))
       ELSE IF resolved.exc.kind # "none" THEN Raise(resolved.exc)
       ELSE IF resolved.val.t # "dict" THEN Raise(Crash("AttributeError"))
       ELSE DispatchKeeping(JobsRequest(a, resolved.val), resolved.val)

\* Mutant: a failed jobs dispatch yields a diagnosis without jobs.
CiDiagnose_Partial(r, resp) ==
    LET response == request(resp)
        raw_jobs == IF response.data.t = "dict"
                    THEN GetOr(response.data, "jobs", PyList(<<>>))
                    ELSE PyList(<<>>)
        items == Iterate(raw_jobs)
        jobs == IF items.exc.kind # "none" THEN items
                ELSE Collect([i \in 1..Len(items.val) |-> _parse_job(items.val[i])])
    IN IF jobs.exc.kind # "none" THEN Raise(jobs.exc)
       ELSE Return(CiDiagnosisInfo(ResolvedRunId(r),
                                   _opt_str(Get(r, "name")),
                                   _opt_str(Get(r, "status")),
                                   _opt_str(Get(r, "conclusion")),
                                   _opt_str(Get(r, "head_branch")),
                                   jobs.val,
                                   FailedJobs(jobs.val)))

\* gh_ci_diagnosis from its second await to its end.
CiDiagnose(r, resp) ==
    LET response == request(resp)
        raw_jobs == IF response.data.t = "dict"
                    THEN GetOr(response.data, "jobs", PyList(<<>>))
                    ELSE PyList(<<>>)
        items == Iterate(raw_jobs)
        jobs == IF items.exc.kind # "none" THEN items
                ELSE Collect([i \in 1..Len(items.val) |-> _parse_job(items.val[i])])
    IN IF ~response.success THEN Raise(RuntimeError(ErrorOr(response, "Failed to list jobs")))
       ELSE IF jobs.exc.kind # "none" THEN Raise(jobs.exc)
       ELSE Return(CiDiagnosisInfo(ResolvedRunId(r),
                                   _opt_str(Get(r, "name")),
                                   _opt_str(Get(r, "status")),
                                   _opt_str(Get(r, "conclusion")),
                                   _opt_str(Get(r, "head_branch")),
                                   jobs.val,
                                   FailedJobs(jobs.val)))

-----------------------------------------------------------------------------
(* The single-dispatch catalog operations.  Each is what the function does  *)
(* around its one `await request(...)`: the checks it runs first, the       *)
(* request it builds, and whether a failed dispatch raises RuntimeError     *)
(* (with the operation's fallback message) or is returned as the GhResult.  *)

Typed(check, req, result, fallback) ==
    [check |-> check, req |-> req, raises |-> TRUE, result |-> result,
     fallback |-> fallback]
Raw(check, req) ==
    [check |-> check, req |-> req, raises |-> FALSE, result |-> "GhResult",
     fallback |-> ""]

\* f"{x}" of an argument.
Fmt(x) == Flat(StrOf(x))

\* A payload entry, and one set only under a condition.
Field(key, val) == key :> val
\* Mutant: the entry is set whatever the condition.
When_Always(cond, entry) == entry
When(cond, entry) == IF cond THEN entry ELSE <<>>

PageParams(a) == <<<<"per_page", a.per_page>>, <<"page", a.page>>>>

(* tools/users.py *)

gh_whoami(a) ==
    Typed(NoError, HttpRequest("GET", "/user", None), "UserInfo",
          "Failed to get user profile")

(* tools/repos.py *)

gh_list_repos(a) ==
    Typed(NoError,
          HttpRequest("GET",
              build_url("/user/repos",
                        PageParams(a) \o <<<<"sort", PyStr(<<"u", "p", "d", "a", "t", "e", "d">>)>>>>), None),
          "list[RepoInfo]", "Failed to list repos")

\* Mutant: the dispatcher's result is returned as it is.
gh_get_repo_Raw(a) ==
    Raw(validate_owner_repo(a.owner, a.repo), HttpRequest("GET", RepoPath(a), None))

gh_get_repo(a) ==
    Typed(validate_owner_repo(a.owner, a.repo),
          HttpRequest("GET", RepoPath(a), None),
          "RepoInfo", "Failed to get repo")

gh_list_branches(a) ==
    Typed(validate_owner_repo(a.owner, a.repo),
          HttpRequest("GET", build_url(RepoPath(a) \o "/branches", PageParams(a)), None),
          "list[BranchInfo]", "Failed to list branches")

gh_create_ref(a) ==
    Raw(validate_owner_repo(a.owner, a.repo),
        HttpRequest("POST", RepoPath(a) \o "/git/refs",
                    PyDict(Field("ref", a.ref) @@ Field("sha", a.sha))))

\* Mutant: the answer is parsed like a typed operation's instead of returned.
gh_delete_branch_Typed(a) ==
    Typed(FirstError(<<validate_owner_repo(a.owner, a.repo),
                       IF a.branch = <<>> THEN ValueError("Branch name cannot be empty")
                       ELSE NoError>>),
          HttpRequest("DELETE", RepoPath(a) \o "/git/refs/heads/" \o Flat(a.branch), None),
          "RepoInfo", "Failed to delete branch")

gh_delete_branch(a) ==
    Raw(FirstError(<<validate_owner_repo(a.owner, a.repo),
                     IF a.branch = <<>> THEN ValueError("Branch name cannot be empty")
                     ELSE NoError>>),
        HttpRequest("DELETE", RepoPath(a) \o "/git/refs/heads/" \o Flat(a.branch), None))

gh_compare(a) ==
    Typed(validate_owner_repo(a.owner, a.repo),
          HttpRequest("GET",
              RepoPath(a) \o "/compare/" \o Flat(a.base) \o "..." \o Flat(a.head), None),
          "CompareInfo",
          "Failed to compare " \o Flat(a.base) \o "..." \o Flat(a.head))

(* tools/files.py *)

gh_get_file(a) ==
    Raw(FirstError(<<validate_owner_repo(a.owner, a.repo), validate_path(a.path)>>),
        HttpRequest("GET",
            build_url(RepoPath(a) \o "/contents/" \o Flat(a.path), <<<<"ref", a.ref>>>>),
            None))

gh_put_file(a) ==
    Raw(FirstError(<<validate_owner_repo(a.owner, a.repo), validate_path(a.path)>>),
        HttpRequest("PUT", RepoPath(a) \o "/contents/" \o Flat(a.path),
            PyDict(Field("message", a.message) @@ Field("content", a.content_base64)
                   @@ When(Truthy(a.branch), Field("branch", a.branch))
                   @@ When(Truthy(a.sha), Field("sha", a.sha)))))

gh_delete_file(a) ==
    Raw(FirstError(<<validate_owner_repo(a.owner, a.repo), validate_path(a.path)>>),
        HttpRequest("DELETE", RepoPath(a) \o "/contents/" \o Flat(a.path),
            PyDict(Field("message", a.message) @@ Field("sha", a.sha)
                   @@ When(Truthy(a.branch), Field("branch", a.branch)))))

(* tools/issues.py *)

\* Mutant: owner and repo are not validated.
gh_list_issues_Unguarded(a) ==
    Typed(NoError,
          HttpRequest("GET",
              build_url(RepoPath(a) \o "/issues",
                        <<<<"state", a.state>>, <<"labels", a.labels>>,
                          <<"assignee", a.assignee>>>> \o PageParams(a)), None),
          "list[IssueInfo]", "Failed to list issues")

gh_list_issues(a) ==
    Typed(validate_owner_repo(a.owner, a.repo),
          HttpRequest("GET",
              build_url(RepoPath(a) \o "/issues",
                        <<<<"state", a.state>>, <<"labels", a.labels>>,
                          <<"assignee", a.assignee>>>> \o PageParams(a)), None),
          "list[IssueInfo]", "Failed to list issues")

gh_get_issue(a) ==
    Typed(validate_owner_repo(a.owner, a.repo),
          HttpRequest("GET", RepoPath(a) \o "/issues/" \o Fmt(a.issue_number), None),
          "IssueInfo", "Failed to get issue")

gh_create_issue(a) ==
    Typed(validate_owner_repo(a.owner, a.repo),
          HttpRequest("POST", RepoPath(a) \o "/issues",
              PyDict(Field("title", a.title)
                     @@ When(Truthy(a.body), Field("body", a.body))
                     @@ When(Truthy(a.labels), Field("labels", a.labels))
                     @@ When(Truthy(a.assignees), Field("assignees", a.assignees)))),
          "IssueInfo", "Failed to create issue")

\* Mutant: a field is set only when its argument is truthy.
gh_update_issue_Truthy(a) ==
    Typed(validate_owner_repo(a.owner, a.repo),
          HttpRequest("PATCH", RepoPath(a) \o "/issues/" \o Fmt(a.issue_number),
              PyDict(When(Truthy(a.title), Field("title", a.title))
                     @@ When(Truthy(a.body), Field("body", a.body))
                     @@ When(Truthy(a.state), Field("state", a.state))
                     @@ When(Truthy(a.labels), Field("labels", a.labels))
                     @@ When(Truthy(a.assignees), Field("assignees", a.assignees)))),
          "IssueInfo", "Failed to update issue")

\* Mutant: an update with no field is refused, as gh_update_pr refuses it.
gh_update_issue_Checked(a) ==
    Typed(FirstError(<<validate_owner_repo(a.owner, a.repo),
                       IF /\ a.title = None /\ a.body = None /\ a.state = None
                          /\ a.labels = None /\ a.assignees = None
                       THEN ValueError("At least one field must be provided")
                       ELSE NoError>>),
          HttpRequest("PATCH", RepoPath(a) \o "/issues/" \o Fmt(a.issue_number),
              PyDict(When(a.title.t # "none", Field("title", a.title))
                     @@ When(a.body.t # "none", Field("body", a.body))
                     @@ When(a.state.t # "none", Field("state", a.state))
                     @@ When(a.labels.t # "none", Field("labels", a.labels))
                     @@ When(a.assignees.t # "none", Field("assignees", a.assignees)))),
          "IssueInfo", "Failed to update issue")

gh_update_issue(a) ==
    Typed(validate_owner_repo(a.owner, a.repo),
          HttpRequest("PATCH", RepoPath(a) \o "/issues/" \o Fmt(a.issue_number),
              PyDict(When(a.title.t # "none", Field("title", a.title))
                     @@ When(a.body.t # "none", Field("body", a.body))
                     @@ When(a.state.t # "none", Field("state", a.state))
                     @@ When(a.labels.t # "none", Field("labels", a.labels))
                     @@ When(a.assignees.t # "none", Field("assignees", a.assignees)))),
          "IssueInfo", "Failed to update issue")

gh_list_comments(a) ==
    Typed(validate_owner_repo(a.owner, a.repo),
          HttpRequest("GET",
              build_url(RepoPath(a) \o "/issues/" \o Fmt(a.issue_number) \o "/comments",
                        PageParams(a)), None),
          "list[CommentInfo]", "Failed to list comments")

gh_create_comment(a) ==
    Typed(validate_owner_repo(a.owner, a.repo),
          HttpRequest("POST",
              RepoPath(a) \o "/issues/" \o Fmt(a.issue_number) \o "/comments",
              PyDict(Field("body", a.body))),
          "CommentInfo", "Failed to create comment")

(* tools/pulls.py *)

gh_list_prs(a) ==
    Typed(validate_owner_repo(a.owner, a.repo),
          HttpRequest("GET",
              build_url(RepoPath(a) \o "/pulls",
                        <<<<"state", a.state>>>> \o PageParams(a)), None),
          "list[PrInfo]", "Failed to list PRs")

gh_get_pr(a) ==
    Typed(validate_owner_repo(a.owner, a.repo),
          HttpRequest("GET", RepoPath(a) \o "/pulls/" \o Fmt(a.pr_number), None),
          "PrInfo", "Failed to get PR")

gh_create_pr(a) ==
    Typed(validate_owner_repo(a.owner, a.repo),
          HttpRequest("POST", RepoPath(a) \o "/pulls",
              PyDict(Field("title", a.title) @@ Field("head", a.head)
                     @@ Field("base", a.base)
                     @@ Field("draft", Bind(a.draft, PyBool(FALSE)))
                     @@ When(Truthy(a.body), Field("body", a.body)))),
          "PrInfo", "Failed to create PR")

\* Mutant: a field is set only when its argument is truthy.
UpdatePrPayload_Truthy(a) ==
    PyDict(When(Truthy(a.title), Field("title", a.title))
           @@ When(Truthy(a.body), Field("body", a.body))
           @@ When(Truthy(a.state), Field("state", a.state))
           @@ When(Truthy(a.base), Field("base", a.base)))

UpdatePrPayload(a) ==
    PyDict(When(a.title.t # "none", Field("title", a.title))
           @@ When(a.body.t # "none", Field("body", a.body))
           @@ When(a.state.t # "none", Field("state", a.state))
           @@ When(a.base.t # "none", Field("base", a.base)))

gh_update_pr(a) ==
    Typed(FirstError(<<validate_owner_repo(a.owner, a.repo),
                       IF ~Truthy(UpdatePrPayload(a))
                       THEN ValueError("At least one field (title, body, state, base) must be provided")
                       ELSE NoError>>),
          HttpRequest("PATCH", RepoPath(a) \o "/pulls/" \o Fmt(a.pr_number),
                      UpdatePrPayload(a)),
          "PrInfo", "Failed to update PR")

gh_merge_pr(a) ==
    Raw(validate_owner_repo(a.owner, a.repo),
        HttpRequest("PUT", RepoPath(a) \o "/pulls/" \o Fmt(a.pr_number) \o "/merge",
            PyDict(Field("merge_method", Bind(a.merge_method, PyStr(<<"merge">>)))
                   @@ When(Truthy(a.commit_title), Field("commit_title", a.commit_title))
                   @@ When(Truthy(a.commit_message),
                           Field("commit_message", a.commit_message)))))

gh_list_pr_files(a) ==
    Typed(validate_owner_repo(a.owner, a.repo),
          HttpRequest("GET",
              build_url(RepoPath(a) \o "/pulls/" \o Fmt(a.pr_number) \o "/files",
                        PageParams(a)), None),
          "list[PrFileInfo]", "Failed to list PR files")

gh_list_pr_reviews(a) ==
    Typed(validate_owner_repo(a.owner, a.repo),
          HttpRequest("GET",
              build_url(RepoPath(a) \o "/pulls/" \o Fmt(a.pr_number) \o "/reviews",
                        PageParams(a)), None),
          "list[PrReviewInfo]", "Failed to list PR reviews")

gh_list_pr_review_comments(a) ==
    Typed(validate_owner_repo(a.owner, a.repo),
          HttpRequest("GET",
              build_url(RepoPath(a) \o "/pulls/" \o Fmt(a.pr_number) \o "/comments",
                        PageParams(a)), None),
          "list[PrReviewCommentInfo]", "Failed to list PR review comments")

(* tools/actions.py *)

gh_list_workflows(a) ==
    Typed(validate_owner_repo(a.owner, a.repo),
          HttpRequest("GET", RepoPath(a) \o "/actions/workflows", None),
          "list[WorkflowInfo]", "Failed to list workflows")

gh_list_workflow_runs(a) ==
    Typed(validate_owner_repo(a.owner, a.repo),
          HttpRequest("GET",
              IF Truthy(a.workflow_id)
              THEN build_url(RepoPath(a) \o "/actions/workflows/" \o Fmt(a.workflow_id)
                                 \o "/runs", <<<<"per_page", a.per_page>>>>)
              ELSE build_url(RepoPath(a) \o "/actions/runs", <<<<"per_page", a.per_page>>>>),
              None),
          "list[WorkflowRunInfo]", "Failed to list workflow runs")

gh_dispatch_workflow(a) ==
    Raw(validate_owner_repo(a.owner, a.repo),
        HttpRequest("POST",
            RepoPath(a) \o "/actions/workflows/" \o Fmt(a.workflow_id) \o "/dispatches",
            PyDict(Field("ref", a.ref)
                   @@ When(Truthy(a.inputs), Field("inputs", a.inputs)))))

gh_rerun_workflow(a) ==
    Raw(validate_owner_repo(a.owner, a.repo),
        HttpRequest("POST", RepoPath(a) \o "/actions/runs/" \o Fmt(a.run_id) \o "/rerun",
                    None))

(* tools/commits.py *)

gh_list_commits(a) ==
    Typed(validate_owner_repo(a.owner, a.repo),
          HttpRequest("GET",
              build_url(RepoPath(a) \o "/commits",
                        <<<<"sha", a.sha>>, <<"path", a.path>>, <<"author", a.author>>>>
                            \o PageParams(a)), None),
          "list[CommitInfo]", "Failed to list commits")

\* Mutant: the combined status is requested with POST.
gh_get_commit_status_Post(a) ==
    Raw(FirstError(<<validate_owner_repo(a.owner, a.repo), validate_ref(a.ref)>>),
        HttpRequest("POST", RepoPath(a) \o "/commits/" \o Flat(a.ref) \o "/status", None))

gh_get_commit_status(a) ==
    Raw(FirstError(<<validate_owner_repo(a.owner, a.repo), validate_ref(a.ref)>>),
        HttpRequest("GET", RepoPath(a) \o "/commits/" \o Flat(a.ref) \o "/status", None))

gh_list_commit_statuses(a) ==
    Typed(FirstError(<<validate_owner_repo(a.owner, a.repo), validate_ref(a.ref)>>),
          HttpRequest("GET", RepoPath(a) \o "/commits/" \o Flat(a.ref) \o "/statuses", None),
          "list[CommitStatusInfo]", "Failed to list commit statuses")

gh_list_check_runs(a) ==
    Typed(FirstError(<<validate_owner_repo(a.owner, a.repo), validate_ref(a.ref)>>),
          HttpRequest("GET",
              build_url(RepoPath(a) \o "/commits/" \o Flat(a.ref) \o "/check-runs",
                        PageParams(a)), None),
          "list[CheckRunInfo]", "Failed to list check runs")

(* tools/search.py *)

gh_search_code(a) ==
    Typed(NoError,
          HttpRequest("GET",
              build_url("/search/code", <<<<"q", a.q>>>> \o PageParams(a)), None),
          "SearchResult", "Failed to search code")

gh_search_issues(a) ==
    Typed(NoError,
          HttpRequest("GET",
              build_url("/search/issues", <<<<"q", a.q>>>> \o PageParams(a)), None),
          "SearchResult", "Failed to search issues")

-----------------------------------------------------------------------------
(* The result parsers of the typed operations.  Each gives Ok(record) or   *)
(* the exception that building the record raises.                          *)

\* response.data if isinstance(response.data, dict) else {}
DictOr(data) == IF data.t = "dict" THEN data ELSE EmptyDict
\* response.data if isinstance(response.data, list) else []
ListOr(data) == IF data.t = "list" THEN data.v ELSE <<>>

\* Mutant: the nested key is indexed instead of looked up with a default.
NestedItems_Indexed(data, key) ==
    IF data.t # "dict" THEN Raised(Crash("AttributeError"))
    ELSE IF key \notin DOMAIN data.v THEN Raised(Crash("KeyError"))
    ELSE Iterate(data.v[key])

\* The items iterated from
\* response.data.get(key, []) if isinstance(response.data, dict) else []
NestedItems(data, key) ==
    IF data.t = "dict" THEN Iterate(GetOr(data, key, PyList(<<>>))) ELSE Ok(<<>>)

\* `key in item`: a key of a dict, an element of a list, a part of a str
\* (here: one of its pieces); TypeError for a value that is no container.
In(key, item) ==
    CASE item.t = "dict" -> Ok(key \in DOMAIN item.v)
      [] item.t = "list" -> Ok(\E i \in 1..Len(item.v) :
                                  item.v[i].t = "str" /\ Flat(item.v[i].v) = key)
      [] item.t = "str" -> Ok(\E i \in 1..Len(item.v) : item.v[i] = key)
      [] OTHER -> Raised(Crash("TypeError"))

(* tools/users.py *)

ParseUser(data) ==
    Ok([login |-> _str(Get(data, "login"), <<>>),
        name |-> _opt_str(Get(data, "name")),
        email |-> _opt_str(Get(data, "email"))])

(* tools/repos.py *)

_parse_repo(raw) ==
    IF raw.t # "dict" THEN Raised(Crash("AttributeError"))
    ELSE Ok([name |-> _str(Get(raw, "name"), <<>>),
             full_name |-> _str(Get(raw, "full_name"), <<>>),
             description |-> _opt_str(Get(raw, "description")),
             private |-> _bool(Get(raw, "private"), FALSE),
             stars |-> _int(Get(raw, "stargazers_count"), 0),
             language |-> _opt_str(Get(raw, "language")),
             default_branch |-> _str(Get(raw, "default_branch"), <<"main">>),
             updated_at |-> _opt_str(Get(raw, "updated_at"))])

ParseBranch(branch) ==
    IF branch.t # "dict" THEN Raised(Crash("AttributeError"))
    ELSE Ok([name |-> _str(Get(branch, "name"), <<>>),
             sha |-> _str(_nested_str(Get(branch, "commit"), "sha"), <<>>),
             protected |-> _bool(Get(branch, "protected"), FALSE)])

ParsePrFile(entry) ==
    IF entry.t # "dict" THEN Raised(Crash("AttributeError"))
    ELSE Ok([filename |-> _str(Get(entry, "filename"), <<>>),
             status |-> _str(Get(entry, "status"), <<>>),
             additions |-> _int(Get(entry, "additions"), 0),
             deletions |-> _int(Get(entry, "deletions"), 0),
             changes |-> _int(Get(entry, "changes"), 0)])

\* Mutant: a commit without a platform author is given the login of its
\* git identity.
ParseCommit_GitAuthor(entry) ==
    IF entry.t # "dict" THEN Raised(Crash("AttributeError"))
    ELSE LET commit_obj == DictOr(Get(entry, "commit"))
             commit_author == DictOr(Get(commit_obj, "author"))
         IN Ok([sha |-> _str(Get(entry, "sha"), <<>>),
                message |-> _str(Get(commit_obj, "message"), <<>>),
                author |-> IF Get(entry, "author").t = "dict"
                           THEN _nested_str(Get(entry, "author"), "login")
                           ELSE _nested_str(commit_author, "login"),
                date |-> _opt_str(Get(commit_author, "date"))])

ParseCommit(entry) ==
    IF entry.t # "dict" THEN Raised(Crash("AttributeError"))
    ELSE LET commit_obj == DictOr(Get(entry, "commit"))
             commit_author == DictOr(Get(commit_obj, "author"))
         IN Ok([sha |-> _str(Get(entry, "sha"), <<>>),
                message |-> _str(Get(commit_obj, "message"), <<>>),
                author |-> _nested_str(Get(entry, "author"), "login"),
                date |-> _opt_str(Get(commit_author, "date"))])

ParseCompare(data) ==
    LET raw_files == ListOr(Get(data, "files"))
        raw_commits == ListOr(Get(data, "commits"))
        files == Collect([i \in 1..Len(raw_files) |-> ParsePrFile(raw_files[i])])
        commits ==
            Collect([i \in 1..Len(raw_commits) |-> ParseCommit(raw_commits[i])])
    IN IF files.exc.kind # "none" THEN files
       ELSE IF commits.exc.kind # "none" THEN commits
       ELSE Ok([status |-> _str(Get(data, "status"), <<>>),
                ahead_by |-> _int(Get(data, "ahead_by"), 0),
                behind_by |-> _int(Get(data, "behind_by"), 0),
                total_commits |-> _int(Get(data, "total_commits"), 0),
                files |-> files.val,
                commits |-> commits.val])

(* tools/issues.py *)

_parse_issue(raw) ==
    IF raw.t # "dict" THEN Raised(Crash("AttributeError"))
    ELSE Ok([number |-> _int(Get(raw, "number"), 0),
             title |-> _str(Get(raw, "title"), <<>>),
             state |-> _str(Get(raw, "state"), <<>>),
             author |-> _nested_str(Get(raw, "user"), "login"),
             labels |-> _labels(Get(raw, "labels")),
             created_at |-> _opt_str(Get(raw, "created_at"))])

_parse_comment(raw) ==
    IF raw.t # "dict" THEN Raised(Crash("AttributeError"))
    ELSE Ok([id |-> _int(Get(raw, "id"), 0),
             author |-> _nested_str(Get(raw, "user"), "login"),
             body |-> _str(Get(raw, "body"), <<>>),
             created_at |-> _opt_str(Get(raw, "created_at"))])

\* Mutant: the entries that carry pull_request are the ones kept.
ParseIssues_OnlyPulls(items) ==
    LET RECURSIVE Walk(_)
        Walk(rest) ==
            IF rest = <<>> THEN Ok(<<>>)
            ELSE LET is_pr == In("pull_request", Head(rest))
                     issue == _parse_issue(Head(rest))
                     tail == Walk(Tail(rest))
                 IN IF is_pr.exc.kind # "none" THEN Raised(is_pr.exc)
                    ELSE IF ~is_pr.val THEN tail
                    ELSE IF issue.exc.kind # "none" THEN Raised(issue.exc)
                    ELSE IF tail.exc.kind # "none" THEN tail
                    ELSE Ok(<<issue.val>> \o tail.val)
    IN Walk(items)

\* [_parse_issue(item) for item in items if "pull_request" not in item]
ParseIssues(items) ==
    LET RECURSIVE Walk(_)
        Walk(rest) ==
            IF rest = <<>> THEN Ok(<<>>)
            ELSE LET is_pr == In("pull_request", Head(rest))
                     issue == _parse_issue(Head(rest))
                     tail == Walk(Tail(rest))
                 IN IF is_pr.exc.kind # "none" THEN Raised(is_pr.exc)
                    ELSE IF is_pr.val THEN tail
                    ELSE IF issue.exc.kind # "none" THEN Raised(issue.exc)
                    ELSE IF tail.exc.kind # "none" THEN tail
                    ELSE Ok(<<issue.val>> \o tail.val)
    IN Walk(items)

(* tools/pulls.py *)

_parse_pr(raw) ==
    IF raw.t # "dict" THEN Raised(Crash("AttributeError"))
    ELSE Ok([number |-> _int(Get(raw, "number"), 0),
             title |-> _str(Get(raw, "title"), <<>>),
             state |-> _str(Get(raw, "state"), <<>>),
             head |-> _str(_nested_str(Get(raw, "head"), "ref"), <<>>),
             base |-> _str(_nested_str(Get(raw, "base"), "ref"), <<>>),
             author |-> _nested_str(Get(raw, "user"), "login"),
             draft |-> _bool(Get(raw, "draft"), FALSE),
             mergeable |-> IF Get(raw, "mergeable").t = "bool"
                           THEN Get(raw, "mergeable") ELSE None])

ParsePrReview(review) ==
    IF review.t # "dict" THEN Raised(Crash("AttributeError"))
    ELSE Ok([id |-> _int(Get(review, "id"), 0),
             state |-> _str(Get(review, "state"), <<>>),
             user |-> _nested_str(Get(review, "user"), "login"),
             body |-> _str(Get(review, "body"), <<>>),
             submitted_at |-> _opt_str(Get(review, "submitted_at"))])

\* isinstance(x, int) holds of a bool as well.
ParsePrReviewComment(entry) ==
    IF entry.t # "dict" THEN Raised(Crash("AttributeError"))
    ELSE Ok([id |-> _int(Get(entry, "id"), 0),
             path |-> _str(Get(entry, "path"), <<>>),
             body |-> _str(Get(entry, "body"), <<>>),
             user |-> _nested_str(Get(entry, "user"), "login"),
             line |-> IF Get(entry, "line").t \in {"int", "bool"}
                      THEN Get(entry, "line") ELSE None,
             side |-> _opt_str(Get(entry, "side")),
             created_at |-> _opt_str(Get(entry, "created_at"))])

(* tools/actions.py *)

ParseWorkflow(workflow) ==
    IF workflow.t # "dict" THEN Raised(Crash("AttributeError"))
    ELSE Ok([id |-> _int(Get(workflow, "id"), 0),
             name |-> _str(Get(workflow, "name"), <<>>),
             state |-> _str(Get(workflow, "state"), <<>>)])

ParseWorkflowRun(r) ==
    IF r.t # "dict" THEN Raised(Crash("AttributeError"))
    ELSE Ok([id |-> _int(Get(r, "id"), 0),
             name |-> _opt_str(Get(r, "name")),
             status |-> _opt_str(Get(r, "status")),
             conclusion |-> _opt_str(Get(r, "conclusion")),
             branch |-> _opt_str(Get(r, "head_branch")),
             created_at |-> _opt_str(Get(r, "created_at"))])

(* tools/commits.py *)

ParseCommitStatus(entry) ==
    IF entry.t # "dict" THEN Raised(Crash("AttributeError"))
    ELSE Ok([state |-> _str(Get(entry, "state"), <<>>),
             context |-> _str(Get(entry, "context"), <<>>),
             description |-> _opt_str(Get(entry, "description"))])

ParseCheckRun(check) ==
    IF check.t # "dict" THEN Raised(Crash("AttributeError"))
    ELSE Ok([id |-> _int(Get(check, "id"), 0),
             name |-> _str(Get(check, "name"), <<>>),
             status |-> _str(Get(check, "status"), <<>>),
             conclusion |-> _opt_str(Get(check, "conclusion")),
             started_at |-> _opt_str(Get(check, "started_at")),
             completed_at |-> _opt_str(Get(check, "completed_at"))])

(* tools/search.py *)

ParseSearch(data) ==
    Ok([total_count |-> _int(Get(data, "total_count"), 0),
        incomplete_results |-> _bool(Get(data, "incomplete_results"), FALSE),
        items |-> ListOr(Get(data, "items"))])

\* The body of a list comprehension, by the record it builds.
ParseItem(parser, item) ==
    CASE parser = "_parse_repo" -> _parse_repo(item)
      [] parser = "ParseBranch" -> ParseBranch(item)
      [] parser = "_parse_comment" -> _parse_comment(item)
      [] parser = "_parse_pr" -> _parse_pr(item)
      [] parser = "ParsePrFile" -> ParsePrFile(item)
      [] parser = "ParsePrReview" -> ParsePrReview(item)
      [] parser = "ParsePrReviewComment" -> ParsePrReviewComment(item)
      [] parser = "ParseWorkflow" -> ParseWorkflow(item)
      [] parser = "ParseWorkflowRun" -> ParseWorkflowRun(item)
      [] parser = "ParseCommit" -> ParseCommit(item)
      [] parser = "ParseCommitStatus" -> ParseCommitStatus(item)
      [] parser = "ParseCheckRun" -> ParseCheckRun(item)

\* [parse(item) for item in items]
Each(parser, items) ==
    Collect([i \in 1..Len(items) |-> ParseItem(parser, items[i])])

\* [parse(item) for item in response.data.get(key, [])], or [] for a non-dict.
EachNested(parser, data, key) ==
    IF NestedItems(data, key).exc.kind # "none" THEN NestedItems(data, key)
    ELSE Each(parser, NestedItems(data, key).val)

-----------------------------------------------------------------------------
(* The catalog: tools/__init__.py *)

SingleOps ==
    {"gh_whoami",
     "gh_list_repos", "gh_get_repo", "gh_list_branches", "gh_create_ref",
     "gh_delete_branch", "gh_compare",
     "gh_get_file", "gh_put_file", "gh_delete_file",
     "gh_list_issues", "gh_get_issue", "gh_create_issue", "gh_update_issue",
     "gh_list_comments", "gh_create_comment",
     "gh_list_prs", "gh_get_pr", "gh_create_pr", "gh_update_pr", "gh_merge_pr",
     "gh_list_pr_files", "gh_list_pr_reviews", "gh_list_pr_review_comments",
     "gh_list_workflows", "gh_list_workflow_runs", "gh_dispatch_workflow",
     "gh_rerun_workflow",
     "gh_list_commits", "gh_get_commit_status", "gh_list_commit_statuses",
     "gh_list_check_runs",
     "gh_search_code", "gh_search_issues"}

gh_tools == SingleOps \cup {"gh_ci_diagnosis"}

\* The tools registered with annotations=ToolAnnotations(readOnlyHint=True).
ReadOnlyOps ==
    {"gh_whoami",
     "gh_list_repos", "gh_get_repo", "gh_list_branches", "gh_compare",
     "gh_get_file",
     "gh_list_issues", "gh_get_issue", "gh_list_comments",
     "gh_list_prs", "gh_get_pr",
     "gh_list_pr_files", "gh_list_pr_reviews", "gh_list_pr_review_comments",
     "gh_list_workflows", "gh_list_workflow_runs", "gh_ci_diagnosis",
     "gh_list_commits", "gh_get_commit_status", "gh_list_commit_statuses",
     "gh_list_check_runs",
     "gh_search_code", "gh_search_issues"}

Plan(o, a) ==
    CASE o = "gh_whoami" -> gh_whoami(a)
      [] o = "gh_list_repos" -> gh_list_repos(a)
      [] o = "gh_get_repo" -> gh_get_repo(a)
      [] o = "gh_list_branches" -> gh_list_branches(a)
      [] o = "gh_create_ref" -> gh_create_ref(a)
      [] o = "gh_delete_branch" -> gh_delete_branch(a)
      [] o = "gh_compare" -> gh_compare(a)
      [] o = "gh_get_file" -> gh_get_file(a)
      [] o = "gh_put_file" -> gh_put_file(a)
      [] o = "gh_delete_file" -> gh_delete_file(a)
      [] o = "gh_list_issues" -> gh_list_issues(a)
      [] o = "gh_get_issue" -> gh_get_issue(a)
      [] o = "gh_create_issue" -> gh_create_issue(a)
      [] o = "gh_update_issue" -> gh_update_issue(a)
      [] o = "gh_list_comments" -> gh_list_comments(a)
      [] o = "gh_create_comment" -> gh_create_comment(a)
      [] o = "gh_list_prs" -> gh_list_prs(a)
      [] o = "gh_get_pr" -> gh_get_pr(a)
      [] o = "gh_create_pr" -> gh_create_pr(a)
      [] o = "gh_update_pr" -> gh_update_pr(a)
      [] o = "gh_merge_pr" -> gh_merge_pr(a)
      [] o = "gh_list_pr_files" -> gh_list_pr_files(a)
      [] o = "gh_list_pr_reviews" -> gh_list_pr_reviews(a)
      [] o = "gh_list_pr_review_comments" -> gh_list_pr_review_comments(a)
      [] o = "gh_list_workflows" -> gh_list_workflows(a)
      [] o = "gh_list_workflow_runs" -> gh_list_workflow_runs(a)
      [] o = "gh_dispatch_workflow" -> gh_dispatch_workflow(a)
      [] o = "gh_rerun_workflow" -> gh_rerun_workflow(a)
      [] o = "gh_list_commits" -> gh_list_commits(a)
      [] o = "gh_get_commit_status" -> gh_get_commit_status(a)
      [] o = "gh_list_commit_statuses" -> gh_list_commit_statuses(a)
      [] o = "gh_list_check_runs" -> gh_list_check_runs(a)
      [] o = "gh_search_code" -> gh_search_code(a)
      [] o = "gh_search_issues" -> gh_search_issues(a)

\* A single-dispatch operation from its call to its await.
Begin(o, a) ==
    IF Plan(o, a).check.kind # "none" THEN Raise(Plan(o, a).check)
    ELSE Dispatch(Plan(o, a).req)

\* What a typed operation builds from the payload of a successful answer,
\* by its result type: Ok(value) or the exception raised on the way.
Parsed(result, data) ==
    CASE result = "UserInfo" -> ParseUser(DictOr(data))
      [] result = "RepoInfo" -> _parse_repo(DictOr(data))
      [] result = "list[RepoInfo]" -> Each("_parse_repo", ListOr(data))
      [] result = "list[BranchInfo]" -> Each("ParseBranch", ListOr(data))
      [] result = "CompareInfo" -> ParseCompare(DictOr(data))
      [] result = "IssueInfo" -> _parse_issue(DictOr(data))
      [] result = "list[IssueInfo]" -> ParseIssues(ListOr(data))
      [] result = "CommentInfo" -> _parse_comment(DictOr(data))
      [] result = "list[CommentInfo]" -> Each("_parse_comment", ListOr(data))
      [] result = "PrInfo" -> _parse_pr(DictOr(data))
      [] result = "list[PrInfo]" -> Each("_parse_pr", ListOr(data))
      [] result = "list[PrFileInfo]" -> Each("ParsePrFile", ListOr(data))
      [] result = "list[PrReviewInfo]" -> Each("ParsePrReview", ListOr(data))
      [] result = "list[PrReviewCommentInfo]" -> Each("ParsePrReviewComment", ListOr(data))
      [] result = "list[WorkflowInfo]" -> EachNested("ParseWorkflow", data, "workflows")
      [] result = "list[WorkflowRunInfo]" ->
            EachNested("ParseWorkflowRun", data, "workflow_runs")
      [] result = "list[CommitInfo]" -> Each("ParseCommit", ListOr(data))
      [] result = "list[CommitStatusInfo]" -> Each("ParseCommitStatus", ListOr(data))
      [] result = "list[CheckRunInfo]" -> EachNested("ParseCheckRun", data, "check_runs")
      [] result = "SearchResult" -> ParseSearch(DictOr(data))

\* Mutant: a failed dispatch is issued once more.
Finish_Retry(o, a, resp) ==
    LET response == request(resp)
        parsed == Parsed(Plan(o, a).result, response.data)
    IN IF ~response.success THEN Dispatch(Plan(o, a).req)
       ELSE IF ~Plan(o, a).raises THEN Return(response)
       ELSE IF parsed.exc.kind # "none" THEN Raise(parsed.exc)
       ELSE Return(parsed.val)

\* A single-dispatch operation from its await to its end.
Finish(o, a, resp) ==
    LET response == request(resp)
        parsed == Parsed(Plan(o, a).result, response.data)
    IN IF ~Plan(o, a).raises THEN Return(response)
       ELSE IF ~response.success
       THEN Raise(RuntimeError(ErrorOr(response, Plan(o, a).fallback)))
       ELSE IF parsed.exc.kind # "none" THEN Raise(parsed.exc)
       ELSE Return(parsed.val)

-----------------------------------------------------------------------------
(* Inputs: the arguments callers pass and the answers the transport gives *)

\* The longest workflow_runs list and the longest jobs list of a payload.
MaxRuns == 2
MaxJobs == 2
\* The longest list payload of a list operation.
MaxItems == 2

BoundedSeq(S, n) == UNION {[1..k -> S] : k \in 0..n}

Owners == {<<"o">>, <<>>, <<"o", "/", "x">>, <<"o", LF>>}
Repos == {<<"r">>, <<".", "r">>}
Paths == {<<"f">>, <<>>, <<"/", "f">>, <<"f", NUL>>, <<"d", "/", "f">>}
Refs == {<<"m">>, <<>>, <<"m", NUL>>, <<"/", "m">>}
OptStr == {None, PyStr(<<>>), PyStr(<<"x">>)}
OptList == {None, PyList(<<>>), PyList(<<PyStr(<<"x">>)>>)}
OptState == {None, PyStr(<<"c", "l", "o", "s", "e", "d">>)}
Open == PyStr(<<"o", "p", "e", "n">>)
Number == {PyInt(7)}
PerPage == {PyInt(30)}
Page == {PyInt(1)}

ArgsOf(o) ==
    CASE o = "gh_whoami" -> {[none |-> None]}
      [] o = "gh_list_repos" -> [per_page : PerPage, page : {PyInt(1), PyInt(2)}]
      [] o \in {"gh_get_repo", "gh_list_workflows"} -> [owner : Owners, repo : Repos]
      [] o = "gh_list_branches" ->
            [owner : Owners, repo : Repos, per_page : PerPage, page : Page]
      [] o = "gh_create_ref" ->
            [owner : Owners, repo : Repos,
             ref : {PyStr(<<"refs/heads/x">>)}, sha : {PyStr(<<"abc">>)}]
      [] o = "gh_delete_branch" -> [owner : Owners, repo : Repos, branch : Refs]
      [] o = "gh_compare" -> [owner : Owners, repo : Repos, base : Refs, head : Refs]
      [] o = "gh_get_file" ->
            [owner : Owners, repo : Repos, path : Paths, ref : {None, PyStr(<<"m">>)}]
      [] o = "gh_put_file" ->
            [owner : Owners, repo : Repos, path : Paths,
             content_base64 : {PyStr(<<"Zg==">>)}, message : {PyStr(<<"msg">>)},
             branch : OptStr, sha : OptStr]
      [] o = "gh_delete_file" ->
            [owner : Owners, repo : Repos, path : Paths,
             message : {PyStr(<<"msg">>)}, sha : {PyStr(<<"abc">>)}, branch : OptStr]
      [] o = "gh_list_issues" ->
            [owner : Owners, repo : Repos, state : {Open},
             labels : {None, PyStr(<<"b", "u", "g">>)}, assignee : {None, PyStr(<<"u">>)},
             per_page : PerPage, page : Page]
      [] o = "gh_get_issue" -> [owner : Owners, repo : Repos, issue_number : Number]
      [] o = "gh_create_issue" ->
            [owner : Owners, repo : Repos, title : {PyStr(<<"t">>)}, body : OptStr,
             labels : OptList, assignees : OptList]
      [] o = "gh_update_issue" ->
            [owner : Owners, repo : Repos, issue_number : Number, title : OptStr,
             body : OptStr, state : OptState, labels : OptList, assignees : OptList]
      [] o = "gh_list_comments" ->
            [owner : Owners, repo : Repos, issue_number : Number,
             per_page : PerPage, page : Page]
      [] o = "gh_create_comment" ->
            [owner : Owners, repo : Repos, issue_number : Number,
             body : {PyStr(<<"x">>)}]
      [] o = "gh_list_prs" ->
            [owner : Owners, repo : Repos, state : {Open}, per_page : PerPage,
             page : Page]
      [] o = "gh_get_pr" -> [owner : Owners, repo : Repos, pr_number : Number]
      [] o = "gh_create_pr" ->
            [owner : Owners, repo : Repos, title : {PyStr(<<"t">>)},
             head : {PyStr(<<"h">>)}, base : {PyStr(<<"m">>)}, body : OptStr,
             draft : {Omitted, PyBool(FALSE), PyBool(TRUE)}]
      [] o = "gh_update_pr" ->
            [owner : Owners, repo : Repos, pr_number : Number, title : OptStr,
             body : OptStr, state : OptState, base : {None, PyStr(<<"m">>)}]
      [] o = "gh_merge_pr" ->
            [owner : Owners, repo : Repos, pr_number : Number,
             merge_method : {Omitted, PyStr(<<"squash">>)}, commit_title : OptStr,
             commit_message : OptStr]
      [] o \in {"gh_list_pr_files", "gh_list_pr_reviews", "gh_list_pr_review_comments"} ->
            [owner : Owners, repo : Repos, pr_number : Number,
             per_page : PerPage, page : Page]
      [] o = "gh_list_workflow_runs" ->
            [owner : Owners, repo : Repos, workflow_id : {None, PyInt(0), PyInt(5)},
             per_page : {PyInt(10)}]
      [] o = "gh_dispatch_workflow" ->
            [owner : Owners, repo : Repos,
             workflow_id : {PyInt(5), PyStr(<<"ci.yml">>)}, ref : {PyStr(<<"m">>)},
             inputs : {None, EmptyDict, PyDict([k |-> PyStr(<<"x">>)])}]
      [] o = "gh_rerun_workflow" -> [owner : Owners, repo : Repos, run_id : {PyInt(42)}]
      [] o = "gh_ci_diagnosis" ->
            [owner : Owners, repo : Repos, run_id : {None, PyInt(0), PyInt(42)},
             branch : {None, PyStr(<<>>), PyStr(<<"m">>)}]
      [] o = "gh_list_commits" ->
            [owner : Owners, repo : Repos, sha : {None, PyStr(<<"m">>)},
             path : {None, PyStr(<<"f">>)}, author : {None, PyStr(<<"u">>)},
             per_page : PerPage, page : Page]
      [] o \in {"gh_get_commit_status", "gh_list_commit_statuses"} ->
            [owner : Owners, repo : Repos, ref : Refs]
      [] o = "gh_list_check_runs" ->
            [owner : Owners, repo : Repos, ref : Refs, per_page : PerPage, page : Page]
      [] o \in {"gh_search_code", "gh_search_issues"} ->
            [q : {PyStr(<<"b", "u", "g">>), PyStr(<<"a", " ", "b">>)},
             per_page : PerPage, page : Page]

\* The transport's answers: success with a body (None for a 204), success
\* without a response, failure with a message, with an empty message, with
\* no error object, and failure that still carries a response.
Transport(bodies) ==
    {DispatchResponse(TRUE, Response(b), None) : b \in bodies}
    \cup {DispatchResponse(TRUE, None, None),
          DispatchResponse(FALSE, None, Error(<<"Not Found">>)),
          DispatchResponse(FALSE, None, Error(<<>>)),
          DispatchResponse(FALSE, None, None),
          DispatchResponse(FALSE, Response(EmptyDict), Error(<<"Not Found">>))}

Bodies == {None, EmptyDict, PyList(<<>>)}

\* Raw objects of a payload: one with every field well-formed, one with
\* fields missing, null or of the wrong type, and an issue that is a pull
\* request.
Full ==
    PyDict([id |-> PyInt(1), number |-> PyInt(1), name |-> PyStr(<<"n">>),
            full_name |-> PyStr(<<"o/n">>), title |-> PyStr(<<"t">>),
            state |-> PyStr(<<"open">>), status |-> PyStr(<<"completed">>),
            conclusion |-> PyStr(<<"success">>), body |-> PyStr(<<"b">>),
            private |-> PyBool(TRUE), stargazers_count |-> PyInt(3),
            login |-> PyStr(<<"u">>),
            user |-> PyDict([login |-> PyStr(<<"u">>)]),
            author |-> PyDict([login |-> PyStr(<<"u">>)]),
            labels |-> PyList(<<PyDict([name |-> PyStr(<<"bug">>)]),
                                PyDict([name |-> PyStr(<<>>)]), PyInt(5)>>),
            head |-> PyDict([ref |-> PyStr(<<"h">>)]),
            base |-> PyDict([ref |-> PyStr(<<"m">>)]),
            draft |-> PyBool(FALSE), mergeable |-> PyBool(TRUE),
            sha |-> PyStr(<<"abc">>),
            commit |-> PyDict([sha |-> PyStr(<<"abc">>), message |-> PyStr(<<"msg">>),
                               author |-> PyDict([date |-> PyStr(<<"d">>)])]),
            filename |-> PyStr(<<"f">>), additions |-> PyInt(2),
            path |-> PyStr(<<"f">>), line |-> PyInt(4), context |-> PyStr(<<"ci">>),
            total_count |-> PyInt(2), incomplete_results |-> PyBool(TRUE)])
Odd ==
    PyDict([id |-> PyStr(<<"x">>), number |-> None, name |-> PyInt(5), title |-> None,
            user |-> PyStr(<<"u">>), author |-> None, labels |-> PyStr(<<"x">>),
            head |-> PyList(<<>>), mergeable |-> PyStr(<<"yes">>),
            commit |-> PyList(<<>>), line |-> PyBool(TRUE), additions |-> PyStr(<<"1", "2">>),
            total_count |-> PyList(<<>>), items |-> EmptyDict, files |-> PyStr(<<"x">>)])
PrIssue == PyDict([number |-> PyInt(2), pull_request |-> EmptyDict])

\* A commit whose author has no platform account: the git identity is in
\* the nested commit object only, and the entry carries a message and a
\* date of its own that are not the commit's.
GitOnly ==
    PyDict([sha |-> PyStr(<<"def">>), author |-> None,
            message |-> PyStr(<<"top">>), date |-> PyStr(<<"top-date">>),
            commit |-> PyDict([message |-> PyStr(<<"msg">>),
                               author |-> PyDict([name |-> PyStr(<<"n">>),
                                                  login |-> PyStr(<<"g">>),
                                                  date |-> PyStr(<<"d">>)])])])

\* The entries of a list payload: the objects, and two that are no objects.
Entries == {Full, Odd, PrIssue, PyInt(5), PyStr(<<"x">>)}

ListBodies ==
    {PyList(s) : s \in BoundedSeq(Entries, MaxItems)}
    \cup {None, EmptyDict, PyStr(<<"x">>)}

NestedBodies(key) ==
    {PyDict(key :> x) : x \in {PyList(<<>>), PyList(<<Full>>), PyList(<<Odd, Full>>),
                               PyList(<<PyInt(5)>>), None, PyStr(<<"x">>), EmptyDict}}
    \cup {PyDict("total_count" :> PyInt(1)), EmptyDict, PyList(<<>>), PyList(<<Full>>),
          None, PyStr(<<"x">>)}

RecordBodies ==
    {Full, Odd, EmptyDict, PyList(<<>>), None,
     PyDict([status |-> PyStr(<<"ahead">>), ahead_by |-> PyInt(1),
             files |-> PyList(<<Full>>), commits |-> PyList(<<Full, Odd>>),
             items |-> PyList(<<Full, PyInt(5)>>)]),
     PyDict([commits |-> PyList(<<GitOnly, Full>>)]),
     PyDict([files |-> PyList(<<PyInt(5)>>)]),
     PyDict([commits |-> PyList(<<PyStr(<<"x">>)>>)])}

\* The payloads an operation is answered with, by its result type.
BodiesFor(result) ==
    CASE result = "GhResult" -> Bodies
      [] result = "list[WorkflowInfo]" -> NestedBodies("workflows")
      [] result = "list[WorkflowRunInfo]" -> NestedBodies("workflow_runs")
      [] result = "list[CheckRunInfo]" -> NestedBodies("check_runs")
      [] result \in {"list[RepoInfo]", "list[BranchInfo]", "list[IssueInfo]",
                     "list[CommentInfo]", "list[PrInfo]", "list[PrFileInfo]",
                     "list[PrReviewInfo]", "list[PrReviewCommentInfo]",
                     "list[CommitStatusInfo]"} -> ListBodies
      [] result = "list[CommitInfo]" ->
            ListBodies \cup {PyList(<<GitOnly>>), PyList(<<Full, GitOnly>>)}
      [] OTHER -> RecordBodies

Run42 ==
    PyDict([id |-> PyInt(42), name |-> PyStr(<<"CI">>), status |-> PyStr(<<"completed">>),
            conclusion |-> PyStr(<<"failure">>), head_branch |-> PyStr(<<"m">>)])
Run7 == PyDict([id |-> PyStr(<<"7">>), status |-> PyStr(<<"queued">>)])
RunObjs == {Run42, Run7, PyInt(5)}

RunBodies == {Run42, Run7, EmptyDict, PyList(<<>>), None}

RunListBodies ==
    {PyDict([workflow_runs |-> PyList(rs)]) : rs \in BoundedSeq(RunObjs, MaxRuns)}
    \cup {PyDict([workflow_runs |-> x]) : x \in {None, PyStr(<<"x">>), Run42, PyInt(1)}}
    \cup {EmptyDict, PyList(<<>>), None}

StepFailed ==
    PyDict([name |-> PyStr(<<"run-tests">>), status |-> PyStr(<<"completed">>),
            conclusion |-> PyStr(<<"failure">>), number |-> PyInt(1)])
JobBuild ==
    PyDict([id |-> PyInt(1), name |-> PyStr(<<"build">>), status |-> PyStr(<<"completed">>),
            conclusion |-> PyStr(<<"success">>), steps |-> PyList(<<>>)])
JobTest ==
    PyDict([id |-> PyInt(2), name |-> PyStr(<<"test">>), status |-> PyStr(<<"completed">>),
            conclusion |-> PyStr(<<"failure">>), steps |-> PyList(<<StepFailed>>)])
JobLint ==
    PyDict([id |-> PyInt(3), name |-> PyStr(<<"lint">>), status |-> PyStr(<<"completed">>),
            conclusion |-> PyStr(<<"cancelled">>), steps |-> None])
JobQueued == PyDict([id |-> PyInt(4), conclusion |-> None])
JobObjs == {JobBuild, JobTest, JobLint, JobQueued, PyInt(3)}

JobBodies ==
    {PyDict([jobs |-> PyList(js)]) : js \in BoundedSeq(JobObjs, MaxJobs)}
    \cup {PyDict([jobs |-> x]) : x \in {None, PyStr(<<"x">>)}}
    \cup {EmptyDict, PyList(<<>>), None}

-----------------------------------------------------------------------------
(* The invocations *)

Pending == [do |-> "pending"]

Init ==
    /\ op = "none"
    /\ args = None
    /\ pc = "idle"
    /\ calls = <<>>
    /\ resps = <<>>
    /\ run = None
    /\ outcome = Pending

\* What a step of an operation does to the invocation.
Step(step, next) ==
    IF step.do = "dispatch"
    THEN /\ calls' = Append(calls, step.req)
         /\ pc' = next
         /\ outcome' = Pending
    ELSE /\ calls' = calls
         /\ pc' = "done"
         /\ outcome' = step

\* A caller invokes a single-dispatch operation: it runs to its await, or
\* to the exception a check raises.
Invoke ==
    /\ pc = "idle"
    /\ \E o \in SingleOps : \E a \in ArgsOf(o) :
          /\ op' = o
          /\ args' = a
          /\ Step(Begin(o, a), "stage1")
    /\ UNCHANGED <<resps, run>>

\* The transport answers; the operation runs to its end.
Complete ==
    /\ pc = "stage1"
    /\ op \in SingleOps
    /\ \E resp \in Transport(BodiesFor(Plan(op, args).result)) :
          /\ resps' = Append(resps, resp)
          /\ Step(Finish(op, args, resp), "done")
    /\ UNCHANGED <<op, args, run>>

\* A caller invokes gh_ci_diagnosis: it runs to stage 1's await.
Diagnose ==
    /\ pc = "idle"
    /\ \E a \in ArgsOf("gh_ci_diagnosis") :
          /\ op' = "gh_ci_diagnosis"
          /\ args' = a
          /\ Step(CiResolveRequest(a), "stage1")
    /\ UNCHANGED <<resps, run>>

\* Stage 1's dispatch answers: the run is resolved and stage 2 dispatched.
ResolveRun ==
    /\ pc = "stage1"
    /\ op = "gh_ci_diagnosis"
    /\ \E resp \in Transport(IF Truthy(args.run_id) THEN RunBodies ELSE RunListBodies) :
          /\ resps' = Append(resps, resp)
          /\ run' = IF CiJobsRequest(args, resp).do = "dispatch"
                    THEN CiJobsRequest(args, resp).run
                    ELSE None
          /\ Step(CiJobsRequest(args, resp), "stage2")
    /\ UNCHANGED <<op, args>>

\* Stage 2's dispatch answers: the jobs are parsed and partitioned.
ListJobs ==
    /\ pc = "stage2"
    /\ op = "gh_ci_diagnosis"
    /\ \E resp \in Transport(JobBodies) :
          /\ resps' = Append(resps, resp)
          /\ Step(CiDiagnose(run, resp), "done")
    /\ UNCHANGED <<op, args, run>>

\* The caller has the outcome; nothing of the invocation is kept.
Finished ==
    /\ pc = "done"
    /\ op' = "none"
    /\ args' = None
    /\ pc' = "idle"
    /\ calls' = <<>>
    /\ resps' = <<>>
    /\ run' = None
    /\ outcome' = Pending

Next == Invoke \/ Complete \/ Diagnose \/ ResolveRun \/ ListJobs \/ Finished

Spec == Init /\ [][Next]_vars

-----------------------------------------------------------------------------
(* The awaited dispatch may also not answer at all *)

\* What `await ctx.dispatch(...)` raises when the task is cancelled while
\* suspended on it, or when the transport itself fails.
AbortKinds == {"CancelledError", "ConnectionError"}

\* The dispatch the invocation is suspended on raises instead of
\* answering.  Neither request() nor any operation has a try around the
\* await, so the exception leaves the operation as it is.
Abort ==
    /\ pc \in {"stage1", "stage2"}
    /\ \E kind \in AbortKinds :
          /\ pc' = "done"
          /\ outcome' = Raise(Crash(kind))
    /\ UNCHANGED <<op, args, calls, resps, run>>

AbortNext == Next \/ Abort

AbortSpec == Init /\ [][AbortNext]_vars

-----------------------------------------------------------------------------
(* The helpers of gh/request.py called on their own *)

\* The most keyword arguments of a build_url call and the longest label list.
MaxParams == 3
MaxLabels == 3

ParamKeys == <<"a", "b", "c", "d", "e">>
ParamValues ==
    {None, PyInt(1), PyInt(0), PyInt(-1), PyBool(TRUE), PyBool(FALSE), PyStr(<<>>),
     PyStr(<<"a", " ", "b", "/", "&">>)}
Endpoints == {"/x", "/repos/o/r/issues"}
\* The keyword arguments of a call, in call order.
ParamLists ==
    UNION {{[i \in 1..k |-> <<ParamKeys[i], vs[i]>>] : vs \in [1..k -> ParamValues]} :
              k \in 0..MaxParams}

Coercions == {"_str", "_int", "_opt_str", "_bool", "_nested_str", "_labels"}

LabelEntries ==
    {PyDict([name |-> PyStr(<<"bug">>)]), PyDict([name |-> None]), PyInt(42),
     PyDict([name |-> PyStr(<<>>)]), PyDict([name |-> PyInt(5)]), EmptyDict}
\* The JSON-like values a coercion is given.
JsonValues ==
    {None, PyStr(<<>>), PyStr(<<"n", "o">>), PyStr(<<"1", "2">>), PyStr(<<" ", "-", "7", LF>>),
     PyStr(<<"1", ".", "5">>), PyInt(0), PyInt(7), PyInt(-3), PyBool(TRUE), PyBool(FALSE),
     PyFloat(7), PyFloat(-7), PyFloat(0), Inf, NegInf, NaN,
     EmptyDict, PyDict([login |-> PyStr(<<"u">>)]), PyDict([login |-> None]),
     PyDict([login |-> PyInt(5)]), PyDict([name |-> PyStr(<<"bug">>)])}
    \cup {PyList(s) : s \in BoundedSeq(LabelEntries, MaxLabels)}

CoercionArgs(f) ==
    CASE f = "_str" -> [val : JsonValues, default : {<<>>, <<"d">>}]
      [] f = "_int" -> [val : JsonValues, default : {0, 5}]
      [] f = "_bool" -> [val : JsonValues, default : {FALSE, TRUE}]
      [] f = "_nested_str" -> [obj : JsonValues, key : {"login"}]
      [] OTHER -> [val : JsonValues]

\* The call f(**a): Ok(the value returned) or the exception that escapes.
Coerced(f, a) ==
    CASE f = "_str" -> Ok(_str(a.val, a.default))
      [] f = "_int" ->
            IF IntEscapes(a.val) # "none" THEN Raised(Crash(IntEscapes(a.val)))
            ELSE Ok(PyInt(_int(a.val, a.default)))
      [] f = "_opt_str" -> Ok(_opt_str(a.val))
      [] f = "_bool" -> Ok(PyBool(_bool(a.val, a.default)))
      [] f = "_nested_str" -> Ok(_nested_str(a.obj, a.key))
      [] f = "_labels" -> Ok(PyList(_labels(a.val)))

\* A caller builds a URL.
BuildUrl ==
    /\ pc = "idle"
    /\ \E e \in Endpoints : \E ps \in ParamLists :
          /\ op' = "build_url"
          /\ args' = [endpoint |-> e, params |-> ps]
          /\ Step(Return(build_url(e, ps)), "done")
    /\ UNCHANGED <<resps, run>>

\* A caller coerces a value.
Coerce ==
    /\ pc = "idle"
    /\ \E f \in Coercions : \E a \in CoercionArgs(f) :
          /\ op' = f
          /\ args' = a
          /\ Step(IF Coerced(f, a).exc.kind # "none" THEN Raise(Coerced(f, a).exc)
                  ELSE Return(Coerced(f, a).val), "done")
    /\ UNCHANGED <<resps, run>>

HelperNext == BuildUrl \/ Coerce \/ Finished

HelperSpec == Init /\ [][HelperNext]_vars

-----------------------------------------------------------------------------
(* Concurrent invocations: each task is one invocation with its own locals, *)
(* suspended at its awaits while the others run.  Every variable holds one  *)
(* value per task.                                                          *)

\* The number of invocations in flight at once.
NumTasks == 2
Tasks == 1..NumTasks

ConcurrentOps == {"gh_ci_diagnosis", "gh_get_repo", "gh_delete_branch"}

ConcurrentArgs(o) ==
    CASE o = "gh_ci_diagnosis" ->
            [owner : {<<"o">>}, repo : {<<"r">>}, run_id : {None, PyInt(42)},
             branch : {None, PyStr(<<"m">>)}]
      [] o = "gh_get_repo" -> [owner : {<<"o">>, <<>>}, repo : {<<"r">>}]
      [] o = "gh_delete_branch" -> [owner : {<<"o">>}, repo : {<<"r">>}, branch : {<<"m">>}]

\* The transport's answers to the dispatch a task is suspended on.
ConcurrentAnswers(o, a, stage) ==
    {DispatchResponse(FALSE, None, Error(<<"Not Found">>))}
    \cup {DispatchResponse(TRUE, Response(b), None) :
             b \in CASE o = "gh_ci_diagnosis" /\ stage = "stage2" ->
                        {PyDict([jobs |-> PyList(<<JobTest>>)]),
                         PyDict([jobs |-> PyList(<<JobBuild>>)])}
                    [] o = "gh_ci_diagnosis" /\ Truthy(a.run_id) -> {Run42, Run7}
                    [] o = "gh_ci_diagnosis" ->
                        {PyDict([workflow_runs |-> PyList(<<Run42>>)]),
                         PyDict([workflow_runs |-> PyList(<<Run7, Run42>>)])}
                    [] OTHER -> {Full, None}}

ConcurrentInit ==
    /\ op = [i \in Tasks |-> "none"]
    /\ args = [i \in Tasks |-> None]
    /\ pc = [i \in Tasks |-> "idle"]
    /\ calls = [i \in Tasks |-> <<>>]
    /\ resps = [i \in Tasks |-> <<>>]
    /\ run = [i \in Tasks |-> None]
    /\ outcome = [i \in Tasks |-> Pending]

\* What a step of its operation does to task i.
TaskStep(i, step, next) ==
    IF step.do = "dispatch"
    THEN /\ calls' = [calls EXCEPT ![i] = Append(@, step.req)]
         /\ pc' = [pc EXCEPT ![i] = next]
         /\ outcome' = [outcome EXCEPT ![i] = Pending]
    ELSE /\ calls' = calls
         /\ pc' = [pc EXCEPT ![i] = "done"]
         /\ outcome' = [outcome EXCEPT ![i] = step]

\* Mutant: `run` is one module-level cell that every invocation writes.
Keep_Shared(i, r) == run' = [j \in Tasks |-> IF r = None THEN run[j] ELSE r]

\* run = ...: the local `run` of task i is bound.
Keep(i, r) == run' = [run EXCEPT ![i] = r]

\* Task i is invoked and runs to its first await.
Start(i) ==
    /\ pc[i] = "idle"
    /\ \E o \in ConcurrentOps : \E a \in ConcurrentArgs(o) :
          /\ op' = [op EXCEPT ![i] = o]
          /\ args' = [args EXCEPT ![i] = a]
          /\ TaskStep(i, IF o = "gh_ci_diagnosis" THEN CiResolveRequest(a)
                         ELSE Begin(o, a), "stage1")
    /\ UNCHANGED <<resps, run>>

\* The dispatch of a single-dispatch task answers.
Answer(i) ==
    /\ pc[i] = "stage1"
    /\ op[i] # "gh_ci_diagnosis"
    /\ \E resp \in ConcurrentAnswers(op[i], args[i], "stage1") :
          /\ resps' = [resps EXCEPT ![i] = Append(@, resp)]
          /\ TaskStep(i, Finish(op[i], args[i], resp), "done")
    /\ UNCHANGED <<op, args, run>>

\* Stage 1's dispatch of a gh_ci_diagnosis task answers.
Resolve(i) ==
    /\ pc[i] = "stage1"
    /\ op[i] = "gh_ci_diagnosis"
    /\ \E resp \in ConcurrentAnswers(op[i], args[i], "stage1") :
          /\ resps' = [resps EXCEPT ![i] = Append(@, resp)]
          /\ Keep(i, IF CiJobsRequest(args[i], resp).do = "dispatch"
                     THEN CiJobsRequest(args[i], resp).run
                     ELSE None)
          /\ TaskStep(i, CiJobsRequest(args[i], resp), "stage2")
    /\ UNCHANGED <<op, args>>

\* Stage 2's dispatch of a gh_ci_diagnosis task answers.
Jobs(i) ==
    /\ pc[i] = "stage2"
    /\ \E resp \in ConcurrentAnswers(op[i], args[i], "stage2") :
          /\ resps' = [resps EXCEPT ![i] = Append(@, resp)]
          /\ TaskStep(i, CiDiagnose(run[i], resp), "done")
    /\ UNCHANGED <<op, args, run>>

\* Task i's caller has the outcome; its locals are gone.
End(i) ==
    /\ pc[i] = "done"
    /\ op' = [op EXCEPT ![i] = "none"]
    /\ args' = [args EXCEPT ![i] = None]
    /\ pc' = [pc EXCEPT ![i] = "idle"]
    /\ calls' = [calls EXCEPT ![i] = <<>>]
    /\ resps' = [resps EXCEPT ![i] = <<>>]
    /\ run' = [run EXCEPT ![i] = None]
    /\ outcome' = [outcome EXCEPT ![i] = Pending]

ConcurrentNext ==
    \E i \in Tasks : Start(i) \/ Answer(i) \/ Resolve(i) \/ Jobs(i) \/ End(i)

ConcurrentSpec == ConcurrentInit /\ [][ConcurrentNext]_vars

-----------------------------------------------------------------------------
(* Vocabulary of the properties *)

\* The operations that take owner and repo.
OwnerRepoOps ==
    gh_tools \ {"gh_whoami", "gh_list_repos", "gh_search_code", "gh_search_issues"}

\* The operations documented to return the raw GhResult.
RawOps ==
    {"gh_create_ref", "gh_delete_branch", "gh_get_file", "gh_put_file",
     "gh_delete_file", "gh_merge_pr", "gh_dispatch_workflow", "gh_rerun_workflow",
     "gh_get_commit_status"}

Invoked == op # "none"
Done == pc = "done"
Raises(kind) == Done /\ outcome.do = "raise" /\ outcome.exc.kind = kind
Returns == Done /\ outcome.do = "return"

\* The invocation ended with a ValueError before anything was dispatched.
Rejected == Raises("ValueError") /\ calls = <<>>

\* The transport's answer is one that request() reports as a failure.
DispatchFailed(resp) == ~resp.success \/ resp.response.t = "none"

GuardsPass == validate_owner_repo(args.owner, args.repo).kind = "none"
Diagnosis == op = "gh_ci_diagnosis"
RunsPath == "/repos/" \o Flat(args.owner) \o "/" \o Flat(args.repo) \o "/actions/runs"
ByIdPaths == {RunsPath \o "/0", RunsPath \o "/42"}
ByBranchPaths == {RunsPath \o "?branch=" \o b \o "&per_page=1" : b \in {"", "m"}}
JobsPaths == {RunsPath \o "/" \o n \o "/jobs" : n \in {"0", "7", "42"}}

-----------------------------------------------------------------------------
(* Properties *)

\* C1: an invocation of an operation taking owner and repo whose owner or
\* repo fails its guard has ended with a ValueError (the ValidationError)
\* and has dispatched nothing.
C1_ValidationBeforeDispatch ==
    (Invoked /\ op \in OwnerRepoOps /\ ~GuardsPass) => Rejected

C1_Witness ==
    /\ op = "gh_list_issues"
    /\ args.owner = <<"o", "/", "x">>
    /\ Rejected

\* C2 (as claimed): every operation that interpolates a path or a git ref
\* into the request path rejects an invalid one with a ValueError before
\* dispatching: base and head of gh_compare, the branch of gh_delete_branch,
\* the path of the file operations, the ref of the commit-status operations.
C2_RefAndPathValidated ==
    /\ (op = "gh_compare" /\ (validate_ref(args.base).kind # "none"
                              \/ validate_ref(args.head).kind # "none")) => Rejected
    /\ (op = "gh_delete_branch" /\ validate_ref(args.branch).kind # "none") => Rejected
    /\ (op \in {"gh_get_file", "gh_put_file", "gh_delete_file"}
        /\ validate_path(args.path).kind # "none") => Rejected
    /\ (op \in {"gh_get_commit_status", "gh_list_commit_statuses", "gh_list_check_runs"}
        /\ validate_ref(args.ref).kind # "none") => Rejected

\* C3: the dispatches of gh_ci_diagnosis are always a prefix of
\* <<resolve-run, list-jobs>>: the jobs request is issued only once the
\* transport has answered the resolve request with success, there is never
\* a third dispatch, and a diagnosis that returns has made exactly these two.
C3_TwoOrderedStages ==
    Diagnosis =>
        /\ Len(calls) <= 2
        /\ \A i \in 1..Len(calls) : calls[i].method = "GET"
        /\ Len(calls) >= 1 => calls[1].path \in ByIdPaths \cup ByBranchPaths
        /\ pc = "stage1" => Len(calls) = 1 /\ resps = <<>>
        /\ Len(calls) = 2 =>
              /\ Len(resps) >= 1
              /\ ~DispatchFailed(resps[1])
              /\ calls[2].path \in JobsPaths
        /\ pc = "stage2" => Len(calls) = 2 /\ Len(resps) = 1
        /\ Returns =>
              /\ Len(calls) = 2
              /\ Len(resps) = 2
              /\ ~DispatchFailed(resps[1])
              /\ ~DispatchFailed(resps[2])

C3_Witness ==
    /\ Diagnosis
    /\ Returns
    /\ Len(calls) = 2
    /\ calls[2].path = "/repos/o/r/actions/runs/42/jobs"

\* C4 (as claimed): with run_id and branch both supplied, whatever the
\* run_id, stage 1 fetches the run by its id and the branch-filtered list
\* request is never issued.
C4_RunIdPrecedence ==
    (Diagnosis /\ args.run_id.t # "none" /\ args.branch.t # "none" /\ Len(calls) >= 1) =>
        /\ calls[1].path \in ByIdPaths
        /\ \A i \in 1..Len(calls) : calls[i].path \notin ByBranchPaths

\* C5 (as claimed): called with neither run_id nor branch, gh_ci_diagnosis
\* fails with a ValueError (the ValidationError) and dispatches nothing.
C5_NeitherIsValidationError ==
    (Diagnosis /\ args.run_id.t = "none" /\ args.branch.t = "none") => Rejected

\* C5 (amended): called with neither run_id nor branch, gh_ci_diagnosis
\* dispatches nothing and fails at once: with the guard's ValueError when
\* owner or repo is invalid, otherwise with a RuntimeError (the
\* RemoteOperationError) saying "Provide either run_id or branch".
C5_NeitherFailsBeforeDispatch ==
    (Diagnosis /\ args.run_id.t = "none" /\ args.branch.t = "none") =>
        /\ calls = <<>>
        /\ IF GuardsPass
           THEN /\ Raises("RuntimeError")
                /\ outcome.exc.msg = "Provide either run_id or branch"
           ELSE Raises("ValueError")

C5_Witness ==
    /\ Diagnosis
    /\ args.run_id.t = "none" /\ args.branch.t = "none"
    /\ GuardsPass
    /\ Raises("RuntimeError")

\* C6: when the transport's answer to stage 1 or stage 2 of gh_ci_diagnosis
\* is a failure, that answer is the last one of the invocation, nothing was
\* dispatched after it, and the invocation has ended with a RuntimeError
\* (the RemoteOperationError) and no CiDiagnosisInfo.
C6_DispatchFailureAborts ==
    Diagnosis =>
        \A i \in 1..Len(resps) :
            DispatchFailed(resps[i]) =>
                /\ i = Len(resps)
                /\ Len(calls) = i
                /\ Raises("RuntimeError")

C6_Witness ==
    /\ Diagnosis
    /\ Len(resps) = 2
    /\ DispatchFailed(resps[2])
    /\ Raises("RuntimeError")

ConclusionIsFailure(job) == job.conclusion.t = "str" /\ Flat(job.conclusion.v) = "failure"

\* C7: in every CiDiagnosisInfo returned, failed_jobs is the order-preserving
\* sublist of jobs made of exactly the jobs whose conclusion is "failure".
C7_FailedJobsPartition ==
    (Diagnosis /\ Returns) =>
        LET jobs == outcome.val.jobs
            failed == outcome.val.failed_jobs
            failing == {i \in 1..Len(jobs) : ConclusionIsFailure(jobs[i])}
        IN /\ \A k \in 1..Len(failed) : ConclusionIsFailure(failed[k])
           /\ Len(failed) = Cardinality(failing)
           /\ \E at \in [1..Len(failed) -> 1..Len(jobs)] :
                 /\ \A k \in 1..Len(failed) : at[k] \in failing /\ jobs[at[k]] = failed[k]
                 /\ \A k \in 1..Len(failed) : \A l \in 1..Len(failed) :
                       k < l => at[k] < at[l]

C7_Witness ==
    /\ Diagnosis
    /\ Returns
    /\ Len(outcome.val.jobs) = 2
    /\ Len(outcome.val.failed_jobs) = 1
    /\ ~ConclusionIsFailure(outcome.val.jobs[1])
    /\ outcome.val.failed_jobs[1] = outcome.val.jobs[2]

\* C8: called with a branch and no run_id, gh_ci_diagnosis issues as its
\* only resolve request the run list filtered by that branch with
\* per_page=1; from a successful answer it takes the first element of
\* workflow_runs as the run, and when that list is empty or the key is
\* absent it fails with a RuntimeError without a jobs dispatch.
C8_BranchResolvesFirstRun ==
    (Diagnosis /\ args.run_id.t = "none" /\ Truthy(args.branch) /\ GuardsPass) =>
        /\ Len(calls) >= 1
        /\ calls[1] = [method |-> "GET",
                       path |-> RunsPath \o "?branch=" \o Flat(args.branch.v)
                                    \o "&per_page=1",
                       body |-> None]
        /\ \A i \in 2..Len(calls) : calls[i].path \in JobsPaths
        /\ (Len(resps) >= 1 /\ ~DispatchFailed(resps[1])) =>
              LET data == resps[1].response.body
                  absent == data.t # "dict" \/ "workflow_runs" \notin DOMAIN data.v
              IN IF absent \/ data.v.workflow_runs = PyList(<<>>)
                 THEN Raises("RuntimeError") /\ Len(calls) = 1
                 ELSE (data.v.workflow_runs.t = "list"
                       /\ data.v.workflow_runs.v[1].t = "dict") =>
                         /\ run = data.v.workflow_runs.v[1]
                         /\ Len(calls) = 2

C8_Witness ==
    /\ Diagnosis
    /\ args.run_id.t = "none"
    /\ Len(calls) = 2
    /\ resps[1].response.body = PyDict([workflow_runs |-> PyList(<<Run7, Run42>>)])
    /\ run = Run7
    /\ calls[2].path = "/repos/o/r/actions/runs/7/jobs"

\* C9 (as claimed): whenever the transport's last answer is a failure, the
\* invocation of any catalog operation has ended with a RuntimeError (the
\* RemoteOperationError), never with a returned value.
C9_FailureAlwaysRaises ==
    (Invoked /\ resps # <<>> /\ DispatchFailed(resps[Len(resps)])) =>
        Raises("RuntimeError")

\* C9 (amended): after a failed dispatch, every operation that returns a
\* typed record or list has ended with a RuntimeError and returned nothing,
\* while each of the nine operations that return the raw GhResult has
\* returned a GhResult with success false, no data and the failure message.
C9_FailureRaisesOrReturnsGhResult ==
    (Invoked /\ resps # <<>> /\ DispatchFailed(resps[Len(resps)])) =>
        IF op \in RawOps
        THEN /\ Returns
             /\ ~outcome.val.success
             /\ outcome.val.data = None
             /\ outcome.val.error.t = "str"
        ELSE Raises("RuntimeError")

C9_Witness ==
    /\ op = "gh_get_repo"
    /\ resps # <<>>
    /\ DispatchFailed(resps[1])
    /\ Raises("RuntimeError")

\* C10 (as claimed): the message of the RuntimeError an operation raises
\* after a failed dispatch is the transport's error message when it gave
\* one, and otherwise the operation's own fallback string.
C10_MessageOrOwnFallback ==
    (op \in SingleOps /\ resps # <<>> /\ Raises("RuntimeError")) =>
        LET error == resps[Len(resps)].error
        IN outcome.exc.msg =
              IF error.t # "none" /\ error.message # <<>>
              THEN Flat(error.message)
              ELSE Plan(op, args).fallback

\* The GhResult a raw operation returned is request()'s own return value.
RawReturned == op \in RawOps /\ Returns /\ Len(resps) = 1

\* C11 (as claimed): request() yields {success: true, data: response.body}
\* for a transport success with a response, and {success: false, error:
\* message} for a transport failure or a transport success without a body.
C11_SuccessNeedsBody ==
    RawReturned =>
        LET resp == resps[1]
            res == outcome.val
        IN /\ (resp.success /\ resp.response.t # "none") =>
                 res = GhResult(TRUE, resp.response.body, None)
           /\ (~resp.success \/ resp.response.t = "none"
               \/ resp.response.body = None) =>
                 /\ ~res.success
                 /\ res.error.t = "str"

\* C11 (amended): request() yields {success: true, data: response.body} for
\* a transport success that carries a response object, whatever its body
\* (null included), and otherwise {success: false, data: null, error:
\* message}, the message being the transport error's message when there is
\* an error object and "Request failed" when there is none.
C11_TwoCasesByResponse ==
    RawReturned =>
        LET resp == resps[1]
            res == outcome.val
        IN IF resp.success /\ resp.response.t # "none"
           THEN res = GhResult(TRUE, resp.response.body, None)
           ELSE /\ ~res.success
                /\ res.data = None
                /\ res.error.t = "str"
                /\ Flat(res.error.v) = IF resp.error.t = "none" THEN "Request failed"
                                       ELSE Flat(resp.error.message)

C11_Witness ==
    /\ RawReturned
    /\ resps[1] = DispatchResponse(TRUE, Response(None), None)
    /\ outcome.val = GhResult(TRUE, None, None)

\* C12: when the transport answers gh_dispatch_workflow or gh_delete_branch
\* with success and a response whose body is empty (null), the operation
\* returns GhResult{success: true, data: null} with no error.
C12_EmptySuccessIsSuccess ==
    (op \in {"gh_dispatch_workflow", "gh_delete_branch"} /\ Len(resps) = 1
     /\ resps[1].success /\ resps[1].response = Response(None)) =>
        /\ Returns
        /\ outcome.val = GhResult(TRUE, None, None)

C12_Witness ==
    /\ op = "gh_delete_branch"
    /\ Len(resps) = 1
    /\ resps[1] = DispatchResponse(TRUE, Response(None), None)
    /\ Returns
    /\ outcome.val.success

\* C13: every request handed to the transport is answered at most once and
\* nothing is handed over while an answer is awaited; after an answer that
\* is a failure the invocation hands over nothing more; and an operation
\* other than gh_ci_diagnosis hands over at most one request.
C13_OneDispatchNoRetry ==
    /\ Len(resps) <= Len(calls)
    /\ Len(calls) <= Len(resps) + 1
    /\ pc \in {"stage1", "stage2"} => Len(calls) = Len(resps) + 1
    /\ Done => Len(calls) = Len(resps)
    /\ \A i \in 1..Len(resps) : DispatchFailed(resps[i]) => Len(calls) = i
    /\ op \in SingleOps => Len(calls) <= 1

C13_Witness ==
    /\ op \in SingleOps
    /\ Done
    /\ Len(calls) = 1
    /\ Len(resps) = 1
    /\ DispatchFailed(resps[1])

\* C14 (as claimed): after a successful dispatch every operation builds its
\* result whatever the payload: no invocation whose answers were all
\* successes ends with an exception raised while parsing.
C14_ParsingNeverRaises ==
    /\ (op \in SingleOps /\ Done /\ Len(resps) = 1 /\ ~DispatchFailed(resps[1])) =>
          Returns
    /\ (Diagnosis /\ Done /\ Len(resps) = 2 /\ ~DispatchFailed(resps[2])) => Returns

\* The operations whose payload nests the list under a key, with the key.
NestedKey ==
    [gh_list_workflows |-> "workflows", gh_list_workflow_runs |-> "workflow_runs",
     gh_list_check_runs |-> "check_runs"]

\* C15: when a successful answer to gh_list_workflows, gh_list_workflow_runs
\* or gh_list_check_runs carries a payload that is not an object, or an
\* object without the operation's key, the operation returns the empty list.
C15_MissingKeyIsEmptyList ==
    (op \in DOMAIN NestedKey /\ Len(resps) = 1 /\ ~DispatchFailed(resps[1])) =>
        LET data == resps[1].response.body
        IN (data.t # "dict" \/ NestedKey[op] \notin DOMAIN data.v) =>
              /\ Returns
              /\ outcome.val = <<>>

C15_Witness ==
    /\ op = "gh_list_check_runs"
    /\ Len(resps) = 1
    /\ resps[1] = DispatchResponse(TRUE, Response(PyDict("total_count" :> PyInt(1))), None)
    /\ Returns
    /\ outcome.val = <<>>

\* C16: the list gh_list_issues returns holds, in payload order, the
\* IssueInfo of each entry of the payload that has no pull_request field,
\* and nothing else.
C16_PullRequestsExcluded ==
    (op = "gh_list_issues" /\ Returns) =>
        LET data == resps[1].response.body
            items == IF data.t = "list" THEN data.v ELSE <<>>
            kept == SelectSeq(items, LAMBDA e : e.t = "dict"
                                                /\ "pull_request" \notin DOMAIN e.v)
        IN /\ Len(outcome.val) = Len(kept)
           /\ \A k \in 1..Len(kept) : outcome.val[k] = _parse_issue(kept[k]).val

C16_Witness ==
    /\ op = "gh_list_issues"
    /\ Returns
    /\ resps[1].response.body = PyList(<<PrIssue, Full>>)
    /\ Len(outcome.val) = 1
    /\ outcome.val[1].number = 1

\* The optional fields of gh_update_pr are all absent.
NothingToUpdate ==
    /\ args.title = None
    /\ args.body = None
    /\ args.state = None
    /\ args.base = None

\* C17: gh_update_pr with title, body, state and base all absent ends with
\* a ValueError (the ValidationError) and dispatches nothing; with at least
\* one of them present (and a valid owner and repo) it dispatches exactly
\* one request, a PATCH of the pull request.
C17_UpdatePrNeedsAField ==
    op = "gh_update_pr" =>
        /\ NothingToUpdate => Rejected
        /\ (~NothingToUpdate /\ GuardsPass) =>
              /\ Len(calls) = 1
              /\ calls[1].method = "PATCH"
              /\ calls[1].path = "/repos/" \o Flat(args.owner) \o "/" \o Flat(args.repo)
                                     \o "/pulls/7"

C17_Witness ==
    /\ op = "gh_update_pr"
    /\ args.title = PyStr(<<>>)
    /\ args.body = None /\ args.state = None /\ args.base = None
    /\ Len(calls) = 1
    /\ calls[1].method = "PATCH"
    /\ calls[1].body = PyDict([title |-> PyStr(<<>>)])

\* The write operations with optional arguments, and the body fields those
\* arguments set (each field has its argument's name).
OptionalFields ==
    [gh_put_file |-> {"branch", "sha"},
     gh_delete_file |-> {"branch"},
     gh_create_issue |-> {"body", "labels", "assignees"},
     gh_update_issue |-> {"title", "body", "state", "labels", "assignees"},
     gh_create_pr |-> {"body", "draft"},
     gh_update_pr |-> {"title", "body", "state", "base"},
     gh_merge_pr |-> {"merge_method", "commit_title", "commit_message"},
     gh_dispatch_workflow |-> {"inputs"}]

\* The optional arguments that default to a value instead of to None.
DefaultedFields ==
    [gh_create_pr |-> [draft |-> PyBool(FALSE)],
     gh_merge_pr |-> [merge_method |-> PyStr(<<"merge">>)]]

Supplied(x) == x # None /\ x # Omitted

\* C18 (as claimed): the body a write operation dispatches has the field of
\* an optional argument only if the argument was supplied, and no field
\* with a null value.
C18_OnlySuppliedFields ==
    (op \in DOMAIN OptionalFields /\ Len(calls) = 1) =>
        LET body == calls[1].body.v
        IN /\ \A f \in OptionalFields[op] : f \in DOMAIN body => Supplied(args[f])
           /\ \A f \in DOMAIN body : body[f] # None

\* C18 (amended): the body has the field of an optional argument that
\* defaults to None only if the argument was supplied, and no field with a
\* null value; the field of an optional argument that defaults to a value
\* (draft of gh_create_pr, merge_method of gh_merge_pr) is always there,
\* with the default when the argument was left out.
C18_OnlySuppliedOrDefaulted ==
    (op \in DOMAIN OptionalFields /\ Len(calls) = 1) =>
        LET body == calls[1].body.v
            defaulted == IF op \in DOMAIN DefaultedFields THEN DefaultedFields[op] ELSE <<>>
        IN /\ \A f \in OptionalFields[op] \ DOMAIN defaulted :
                 f \in DOMAIN body => Supplied(args[f]) /\ body[f] = args[f]
           /\ \A f \in DOMAIN defaulted :
                 /\ f \in DOMAIN body
                 /\ body[f] = IF args[f] = Omitted THEN defaulted[f] ELSE args[f]
           /\ \A f \in DOMAIN body : body[f] # None

C18_Witness ==
    /\ op = "gh_create_issue"
    /\ Len(calls) = 1
    /\ args.body = None
    /\ args.assignees = None
    /\ args.labels = PyList(<<PyStr(<<"x">>)>>)
    /\ calls[1].body = PyDict([title |-> PyStr(<<"t">>),
                               labels |-> PyList(<<PyStr(<<"x">>)>>)])

ListFields == {"labels", "assignees"}

\* C19 (as claimed): gh_update_issue and gh_update_pr both take the
\* list-valued fields labels and assignees, and the body they dispatch
\* carries a provided list exactly as provided.
C19_BothUpdatesReplaceLists ==
    (op \in {"gh_update_issue", "gh_update_pr"} /\ Len(calls) = 1) =>
        \A f \in ListFields :
            /\ f \in DOMAIN args
            /\ args[f] # None => (f \in DOMAIN calls[1].body.v
                                  /\ calls[1].body.v[f] = args[f])

\* C19 (amended): the body gh_update_issue dispatches carries a provided
\* labels or assignees list exactly as provided, the empty list included,
\* and omits the field when the list is absent; gh_update_pr takes no
\* list-valued field and its body has none.
C19_UpdateIssueReplacesLists ==
    /\ (op = "gh_update_issue" /\ Len(calls) = 1) =>
          \A f \in ListFields :
              IF args[f] # None
              THEN f \in DOMAIN calls[1].body.v /\ calls[1].body.v[f] = args[f]
              ELSE f \notin DOMAIN calls[1].body.v
    /\ (op = "gh_update_pr" /\ Len(calls) = 1) =>
          /\ ListFields \cap DOMAIN args = {}
          /\ DOMAIN calls[1].body.v \subseteq {"title", "body", "state", "base"}

C19_Witness ==
    /\ op = "gh_update_issue"
    /\ Len(calls) = 1
    /\ args.labels = PyList(<<>>)
    /\ args.assignees = PyList(<<PyStr(<<"x">>)>>)
    /\ calls[1].body.v.labels = PyList(<<>>)
    /\ calls[1].body.v.assignees = PyList(<<PyStr(<<"x">>)>>)

\* A name as the claim describes the accepted ones: non-empty, its first
\* character alphanumeric, every other one alphanumeric, '.', '_' or '-'.
WellFormedName(s) ==
    /\ s # <<>>
    /\ s[1] \in Alnum
    /\ \A i \in 2..Len(s) : s[i] \in Alnum \cup {".", "_", "-"}

\* C20 (as claimed): validate_owner and validate_repo accept exactly the
\* well-formed names; an invocation with any other owner or repo, one with
\* a '/', a leading '.' or a newline included, ends with a ValueError.
C20_GuardAcceptsIffWellFormed ==
    (Invoked /\ op \in OwnerRepoOps) =>
        /\ validate_owner(args.owner).kind = "none" <=> WellFormedName(args.owner)
        /\ validate_repo(args.repo).kind = "none" <=> WellFormedName(args.repo)
        /\ ~(WellFormedName(args.owner) /\ WellFormedName(args.repo)) => Rejected

\* The operations that pass `path` to validate_path and those that pass
\* `ref` to validate_ref.
PathOps == {"gh_get_file", "gh_put_file", "gh_delete_file"}
RefOps == {"gh_get_commit_status", "gh_list_commit_statuses", "gh_list_check_runs"}

\* A path and a ref as the claim describes the accepted ones.
WellFormedPath(s) == s # <<>> /\ ~Contains(s, NUL) /\ s[1] # "/"
WellFormedRef(s) == s # <<>> /\ ~Contains(s, NUL)

\* C21: validate_path accepts a path exactly when it is non-empty, has no
\* null character and does not begin with '/'; validate_ref accepts a ref
\* exactly when it is non-empty and has no null character.  An invocation
\* whose owner and repo pass is dispatched exactly when its path (its ref)
\* is of that form, and is rejected with a ValueError otherwise.
C21_PathAndRefAcceptedIffWellFormed ==
    /\ (Invoked /\ op \in PathOps) =>
          /\ validate_path(args.path).kind = "none" <=> WellFormedPath(args.path)
          /\ GuardsPass => (calls # <<>> <=> WellFormedPath(args.path))
          /\ (GuardsPass /\ ~WellFormedPath(args.path)) => Rejected
    /\ (Invoked /\ op \in RefOps) =>
          /\ validate_ref(args.ref).kind = "none" <=> WellFormedRef(args.ref)
          /\ GuardsPass => (calls # <<>> <=> WellFormedRef(args.ref))
          /\ (GuardsPass /\ ~WellFormedRef(args.ref)) => Rejected

\* A path with an inner '/' has been dispatched.
C21_Witness ==
    /\ op = "gh_get_file"
    /\ args.path = <<"d", "/", "f">>
    /\ Len(calls) = 1
    /\ calls[1].path = "/repos/o/r/contents/d/f"

\* The text `part` occurs in the text `whole`.
Includes(whole, part) ==
    \E i \in 1..(Len(whole) - Len(part) + 1) :
        SubSeq(whole, i, i + Len(part) - 1) = part

\* The argument that made the invocation's check fail: the one the first
\* failing guard or local check was given (empty when the check is about
\* no single argument).
OffendingValue ==
    CASE validate_owner(args.owner).kind # "none" -> args.owner
      [] validate_repo(args.repo).kind # "none" -> args.repo
      [] op \in PathOps -> args.path
      [] op \in RefOps -> args.ref
      [] op = "gh_delete_branch" -> args.branch
      [] OTHER -> <<>>

\* C22 (as claimed): the message of every ValueError (the ValidationError)
\* that a guard or a local input check raises includes the offending value,
\* here in its escaped spelling, quotes not required.
C22_ValidationErrorNamesValue ==
    (Rejected /\ op \in OwnerRepoOps) =>
        Includes(outcome.exc.msg, Escaped(OffendingValue))

\* The query the claim describes: key=value of the parameters that are not
\* None, in call order, joined by '&'; a bool as true/false, anything else
\* by its string form, url-encoded.
QueryValue(x) ==
    CASE x.t = "bool" -> IF x.v THEN "true" ELSE "false"
      [] x.t = "int" -> Flat(IntChars(x.v))
      [] x.t = "str" -> Quoted(x.v)
RECURSIVE QueryFrom(_, _)
QueryFrom(params, i) ==
    IF i > Len(params) THEN ""
    ELSE IF params[i][2] = None THEN QueryFrom(params, i + 1)
    ELSE params[i][1] \o "=" \o QueryValue(params[i][2])
         \o (IF \E j \in (i + 1)..Len(params) : params[j][2] # None THEN "&" ELSE "")
         \o QueryFrom(params, i + 1)

\* C23: build_url returns the endpoint unchanged when every parameter is
\* None (or there is none), and otherwise the endpoint, '?', and the
\* url-encoded query of exactly the parameters that are not None, booleans
\* as true/false and other values by their string form.
C23_BuildUrlDropsNoneOnly ==
    (op = "build_url" /\ Done) =>
        /\ outcome.do = "return"
        /\ (\A i \in 1..Len(args.params) : args.params[i][2] = None)
              => outcome.val = args.endpoint
        /\ (\E i \in 1..Len(args.params) : args.params[i][2] # None)
              => outcome.val = args.endpoint \o "?" \o QueryFrom(args.params, 1)

\* The example of the claim: {a: None, b: 1, c: true} on "/x".
C23_Witness ==
    /\ op = "build_url"
    /\ args.endpoint = "/x"
    /\ args.params = <<<<"a", None>>, <<"b", PyInt(1)>>, <<"c", PyBool(TRUE)>>>>
    /\ Returns
    /\ outcome.val = "/x?b=1&c=true"

\* Values that int() cannot convert.
NonNumeric ==
    {PyStr(<<>>), PyStr(<<"n", "o">>), PyStr(<<"1", ".", "5">>), EmptyDict,
     PyDict([login |-> None]), PyList(<<>>), PyList(<<PyInt(42)>>), NaN}

\* The entries of a label list that are objects with a truthy name.
IsNamedLabel(label) == label.t = "dict" /\ Truthy(Get(label, "name"))

\* C24 (as claimed): no coercion raises, whatever JSON-like value it is
\* given, and each returns its documented default: _int the default for
\* None and for a value that is no number, _bool False for None when no
\* default is passed, _str the default for None, _opt_str None for None,
\* _nested_str None for a value that is no object, _labels the empty list
\* for a value that is no array and otherwise the names, in order, of the
\* entries that are objects with a truthy name.
C24_CoercionsNeverRaise ==
    (op \in Coercions /\ Done) =>
        /\ outcome.do = "return"
        /\ (op = "_int" /\ args.val \in NonNumeric \cup {None})
              => outcome.val = PyInt(args.default)
        /\ (op = "_bool" /\ args.val = None) => outcome.val = PyBool(args.default)
        /\ (op = "_str" /\ args.val = None) => outcome.val = PyStr(args.default)
        /\ (op = "_opt_str" /\ args.val = None) => outcome.val = None
        /\ (op = "_nested_str" /\ args.obj.t # "dict") => outcome.val = None
        /\ (op = "_labels" /\ args.val.t # "list") => outcome.val = PyList(<<>>)
        /\ (op = "_labels" /\ args.val.t = "list") =>
              LET named == SelectSeq(args.val.v, IsNamedLabel)
              IN /\ outcome.val.t = "list"
                 /\ Len(outcome.val.v) = Len(named)
                 /\ \A i \in 1..Len(named) :
                       outcome.val.v[i] = PyStr(StrOf(named[i].v.name))

\* The requests and the outcome of an invocation that runs alone and has
\* been given the answers rs so far.
Alone(o, a, rs) ==
    LET s0 == IF o = "gh_ci_diagnosis" THEN CiResolveRequest(a) ELSE Begin(o, a)
        s1 == IF o = "gh_ci_diagnosis" THEN CiJobsRequest(a, rs[1]) ELSE Finish(o, a, rs[1])
    IN IF s0.do # "dispatch" THEN [calls |-> <<>>, outcome |-> s0]
       ELSE IF rs = <<>> THEN [calls |-> <<s0.req>>, outcome |-> Pending]
       ELSE IF s1.do # "dispatch" THEN [calls |-> <<s0.req>>, outcome |-> s1]
       ELSE IF Len(rs) = 1 THEN [calls |-> <<s0.req, s1.req>>, outcome |-> Pending]
       ELSE [calls |-> <<s0.req, s1.req>>, outcome |-> CiDiagnose(s1.run, rs[2])]

\* C25: whatever the interleaving of the tasks at their awaits, each
\* invocation's dispatched requests and its outcome are those of the same
\* invocation run alone with the same arguments and the same answers, and
\* a task that is idle again holds nothing of its last invocation.
C25_InterleavingIsInvisible ==
    \A i \in Tasks :
        /\ op[i] # "none" =>
              /\ calls[i] = Alone(op[i], args[i], resps[i]).calls
              /\ outcome[i] = Alone(op[i], args[i], resps[i]).outcome
        /\ pc[i] = "idle" =>
              /\ op[i] = "none" /\ args[i] = None /\ run[i] = None
              /\ calls[i] = <<>> /\ resps[i] = <<>> /\ outcome[i] = Pending

\* Two diagnoses resolved different runs before either listed its jobs,
\* and the first has ended with the diagnosis of its own run.
C25_Witness ==
    /\ op[1] = "gh_ci_diagnosis" /\ op[2] = "gh_ci_diagnosis"
    /\ pc[1] = "done" /\ pc[2] = "stage2"
    /\ run[1] = Run42 /\ run[2] = Run7
    /\ outcome[1].do = "return"
    /\ outcome[1].val.run_id = 42

\* The invocation ended while a dispatch of its was still unanswered.
Aborted == Done /\ Len(resps) < Len(calls)

\* C26 (as claimed): an invocation whose awaited dispatch is cancelled, or
\* aborts in another way, ends with a RuntimeError (the
\* RemoteOperationError) and returns no result.
C26_AbortIsRemoteOperationError ==
    Aborted => (outcome.do = "raise" /\ outcome.exc.kind = "RuntimeError")

\* The field `key` of x as text, when x is an object that has it non-null.
TextAt(x, key) ==
    IF x.t = "dict" /\ key \in DOMAIN x.v /\ x.v[key] # None
    THEN PyStr(StrOf(x.v[key]))
    ELSE None
\* The object under `key` of x, or nothing.
ObjectAt(x, key) == IF x.t = "dict" /\ key \in DOMAIN x.v THEN x.v[key] ELSE None

\* A CommitInfo as the claim describes it from its payload entry.
CommitAsClaimed(info, entry) ==
    /\ info.author = TextAt(ObjectAt(entry, "author"), "login")
    /\ info.date = TextAt(ObjectAt(ObjectAt(entry, "commit"), "author"), "date")
    /\ info.message = IF TextAt(ObjectAt(entry, "commit"), "message") = None
                      THEN PyStr(<<>>)
                      ELSE TextAt(ObjectAt(entry, "commit"), "message")

\* The payload of the one answered dispatch.
Payload == resps[1].response.body

\* C27: every CommitInfo that gh_list_commits and gh_compare return has its
\* author from entry.author.login only (null when entry.author is null or
\* no object, whatever entry.commit.author holds), and its date and
\* message from the nested entry.commit only.
C27_CommitAuthorIsPlatformLogin ==
    /\ (op = "gh_list_commits" /\ Returns) =>
          /\ Len(outcome.val) = Len(ListOr(Payload))
          /\ \A i \in 1..Len(outcome.val) :
                CommitAsClaimed(outcome.val[i], Payload.v[i])
    /\ (op = "gh_compare" /\ Returns) =>
          LET commits == ListOr(ObjectAt(Payload, "commits"))
          IN /\ Len(outcome.val.commits) = Len(commits)
             /\ \A i \in 1..Len(commits) :
                   CommitAsClaimed(outcome.val.commits[i], commits[i])

\* A commit whose entry.author is null while its git identity has a login
\* has been returned without an author, with the git date.
C27_Witness ==
    /\ op = "gh_list_commits"
    /\ Returns
    /\ Payload = PyList(<<Full, GitOnly>>)
    /\ outcome.val[2].author = None
    /\ outcome.val[2].date = PyStr(<<"d">>)
    /\ outcome.val[2].message = PyStr(<<"msg">>)
    /\ outcome.val[1].author = PyStr(<<"u">>)

\* The payload of the run that stage 1 resolved: the body of the answer
\* when the caller gave a run id, else the first of its workflow_runs.
ResolvedPayload ==
    IF Truthy(args.run_id) THEN Payload ELSE Payload.v.workflow_runs.v[1]

\* The id the claim describes: the integer coercion of the payload's `id`,
\* 0 when the payload is no object or has no id.
IdOf(payload) ==
    IF payload.t = "dict" /\ "id" \in DOMAIN payload.v THEN _int(payload.v.id, 0) ELSE 0

\* C28: once gh_ci_diagnosis has dispatched its jobs request, the run id in
\* that request's path is the integer coercion of the resolved run
\* payload's `id` (0 when it is missing or the payload is no object), also
\* when the caller supplied another run_id, and the diagnosis it returns
\* reports that same id.
C28_JobsAndReportUseResolvedId ==
    (Diagnosis /\ Len(calls) = 2) =>
        /\ calls[2].path =
              RunsPath \o "/" \o Flat(IntChars(IdOf(ResolvedPayload))) \o "/jobs"
        /\ Returns => outcome.val.run_id = IdOf(ResolvedPayload)

\* The caller asked for run 42, the payload of that run says id "7": the
\* jobs of run 7 were fetched and run 7 is reported.
C28_Witness ==
    /\ Diagnosis
    /\ args.run_id = PyInt(42)
    /\ Len(resps) = 2
    /\ Payload = Run7
    /\ calls[2].path = "/repos/o/r/actions/runs/7/jobs"
    /\ Returns
    /\ outcome.val.run_id = 7

\* C29: every request that an operation registered as read-only hands to
\* the dispatcher is a GET, at either of its awaits; a POST, PUT, PATCH or
\* DELETE comes from an operation registered with readOnlyHint=False only.
C29_ReadOnlyOpsOnlyGet ==
    \A i \in 1..Len(calls) :
        /\ op \in ReadOnlyOps => calls[i].method = "GET"
        /\ calls[i].method \in {"POST", "PUT", "PATCH", "DELETE"}
              => op \in gh_tools \ ReadOnlyOps

\* A read-only operation with two dispatches has issued both as GETs.
C29_Witness ==
    /\ op = "gh_ci_diagnosis"
    /\ op \in ReadOnlyOps
    /\ Len(calls) = 2
    /\ calls[1].method = "GET"
    /\ calls[2].method = "GET"

\* The optional fields of gh_update_issue are all absent.
NoIssueField ==
    /\ args.title = None
    /\ args.body = None
    /\ args.state = None
    /\ args.labels = None
    /\ args.assignees = None

\* C30: gh_update_issue with a valid owner and repo and every optional
\* field absent still dispatches exactly one request, a PATCH of the issue
\* whose body is the empty object, while gh_update_pr with every optional
\* field absent ends with a ValueError before dispatching.
C30_UpdateIssueSendsEmptyPatch ==
    /\ (op = "gh_update_issue" /\ GuardsPass /\ NoIssueField) =>
          /\ Len(calls) = 1
          /\ calls[1].method = "PATCH"
          /\ calls[1].path = RepoPath(args) \o "/issues/7"
          /\ calls[1].body = EmptyDict
          /\ ~Raises("ValueError")
    /\ (op = "gh_update_pr" /\ GuardsPass /\ NothingToUpdate) =>
          /\ calls = <<>>
          /\ Raises("ValueError")

\* The empty PATCH was answered and the updated issue returned.
C30_Witness ==
    /\ op = "gh_update_issue"
    /\ args.owner = <<"o">> /\ args.repo = <<"r">>
    /\ NoIssueField
    /\ Len(calls) = 1
    /\ calls[1] = HttpRequest("PATCH", "/repos/o/r/issues/7", EmptyDict)
    /\ Returns

====
